---- MODULE Spec2Model ----
(***************************************************************************)
(* CREATE2 minimal-proxy address prediction: the Go predictor              *)
(* (go/create2.go and its earlier version), the Metal kernel               *)
(* compute_create2_batch with its Keccak-256, and the callers.             *)
(*                                                                         *)
(* A Go string and a uchar buffer are both modelled as a sequence of byte  *)
(* values 0..255.  A uint64_t Keccak lane is modelled as the set of the    *)
(* positions (0 = least significant) of its one bits.                      *)
(***************************************************************************)
EXTENDS Integers, Sequences, FiniteSets, TLC

(***************************************************************************)
(* Bytes and characters                                                    *)
(***************************************************************************)
Digits == "0123456789"
UpperLetters == "ABCDEFGHIJKLMNOPQRSTUVWXYZ"
LowerLetters == "abcdefghijklmnopqrstuvwxyz"

\* The ASCII code of the one-character string c.
Ord(c) ==
  IF \E i \in 1..10 : SubSeq(Digits, i, i) = c
    THEN 47 + (CHOOSE i \in 1..10 : SubSeq(Digits, i, i) = c)
  ELSE IF \E i \in 1..26 : SubSeq(UpperLetters, i, i) = c
    THEN 64 + (CHOOSE i \in 1..26 : SubSeq(UpperLetters, i, i) = c)
  ELSE IF \E i \in 1..26 : SubSeq(LowerLetters, i, i) = c
    THEN 96 + (CHOOSE i \in 1..26 : SubSeq(LowerLetters, i, i) = c)
  ELSE IF c = "-" THEN 45
  ELSE IF c = "/" THEN 47
  ELSE IF c = ":" THEN 58
  ELSE IF c = "@" THEN 64
  ELSE 32

\* []byte(s) of a string literal s.
\* (f \o <<>> is the sequence f held as a tuple of its elements.)
Bytes(s) == [i \in 1..Len(s) |-> Ord(SubSeq(s, i, i))] \o <<>>

\* s[from:] and s[:to] of Go, on 0-based offsets.
SliceFrom(s, from) == SubSeq(s, from + 1, Len(s))
SliceTo(s, to) == SubSeq(s, 1, to)
Slice(s, from, to) == SubSeq(s, from + 1, to)

Pow2 == <<1, 2, 4, 8, 16, 32, 64, 128, 256>>

\* The bits (positions 0..7) of the byte b, and back.
BitsOf(b) == {k \in 0..7 : (b \div Pow2[k + 1]) % 2 = 1}
ByteOf(bits) ==
  (IF 0 \in bits THEN 1 ELSE 0) + (IF 1 \in bits THEN 2 ELSE 0)
  + (IF 2 \in bits THEN 4 ELSE 0) + (IF 3 \in bits THEN 8 ELSE 0)
  + (IF 4 \in bits THEN 16 ELSE 0) + (IF 5 \in bits THEN 32 ELSE 0)
  + (IF 6 \in bits THEN 64 ELSE 0) + (IF 7 \in bits THEN 128 ELSE 0)

\* a | b and a & b on uchar values.
Or8(a, b) == ByteOf(BitsOf(a) \cup BitsOf(b))
And8(a, b) == ByteOf(BitsOf(a) \cap BitsOf(b))

(***************************************************************************)
(* Keccak-256 of the Metal kernel                                          *)
(***************************************************************************)
LaneBits == 0..63

\* A 64-bit constant written as 16 hex digits, as the set of its one bits.
HexValue(c) ==
  IF \E i \in 1..10 : SubSeq(Digits, i, i) = c
    THEN (CHOOSE i \in 1..10 : SubSeq(Digits, i, i) = c) - 1
    ELSE 9 + (CHOOSE i \in 1..6 : SubSeq(LowerLetters, i, i) = c)
LaneOfHex(h) ==
  {b \in LaneBits : (HexValue(SubSeq(h, 16 - (b \div 4), 16 - (b \div 4))) \div Pow2[(b % 4) + 1]) % 2 = 1}

RC == <<
  LaneOfHex("0000000000000001"), LaneOfHex("0000000000008082"), LaneOfHex("800000000000808a"),
  LaneOfHex("8000000080008000"), LaneOfHex("000000000000808b"), LaneOfHex("0000000080000001"),
  LaneOfHex("8000000080008081"), LaneOfHex("8000000000008009"), LaneOfHex("000000000000008a"),
  LaneOfHex("0000000000000088"), LaneOfHex("0000000080008009"), LaneOfHex("000000008000000a"),
  LaneOfHex("000000008000808b"), LaneOfHex("800000000000008b"), LaneOfHex("8000000000008089"),
  LaneOfHex("8000000000008003"), LaneOfHex("8000000000008002"), LaneOfHex("8000000000000080"),
  LaneOfHex("000000000000800a"), LaneOfHex("800000008000000a"), LaneOfHex("8000000080008081"),
  LaneOfHex("8000000000008080"), LaneOfHex("0000000080000001"), LaneOfHex("8000000080008008") >>

r == << 1,  3,  6,  10, 15, 21, 28, 36, 45, 55, 2,  14,
        27, 41, 56, 8,  25, 43, 62, 18, 39, 61, 20, 44 >>

\* a ^ b, (a << n) | (a >> (64 - n)) and (~a) & b on uint64_t.
Xor64(a, b) == {i \in (a \ b) \cup (b \ a) : TRUE}
Rotl64(a, n) == {(i + n) % 64 : i \in a}
NotAnd64(a, b) == {i \in b \ a : TRUE}
Odd(n) == n % 2 = 1
Xor64x5(a, b, c, d, e) ==
  {i \in LaneBits : Odd((IF i \in a THEN 1 ELSE 0) + (IF i \in b THEN 1 ELSE 0) + (IF i \in c THEN 1 ELSE 0)
                        + (IF i \in d THEN 1 ELSE 0) + (IF i \in e THEN 1 ELSE 0))}

\* Theta.  C[i] = state[i] ^ state[i+5] ^ state[i+10] ^ state[i+15] ^ state[i+20].
ThetaC(state) ==
  << Xor64x5(state[1], state[6], state[11], state[16], state[21]),
     Xor64x5(state[2], state[7], state[12], state[17], state[22]),
     Xor64x5(state[3], state[8], state[13], state[18], state[23]),
     Xor64x5(state[4], state[9], state[14], state[19], state[24]),
     Xor64x5(state[5], state[10], state[15], state[20], state[25]) >>
\* D[i] = C[(i + 4) % 5] ^ rotl(C[(i + 1) % 5], 1).
ThetaD(C) ==
  << Xor64(C[5], Rotl64(C[2], 1)), Xor64(C[1], Rotl64(C[3], 1)), Xor64(C[2], Rotl64(C[4], 1)),
     Xor64(C[3], Rotl64(C[5], 1)), Xor64(C[4], Rotl64(C[1], 1)) >>
\* state[i] ^= D[i % 5].
ThetaXor(state, D) ==
     << Xor64(state[1], D[1]), Xor64(state[2], D[2]), Xor64(state[3], D[3]),
        Xor64(state[4], D[4]), Xor64(state[5], D[5]),
        Xor64(state[6], D[1]), Xor64(state[7], D[2]), Xor64(state[8], D[3]),
        Xor64(state[9], D[4]), Xor64(state[10], D[5]),
        Xor64(state[11], D[1]), Xor64(state[12], D[2]), Xor64(state[13], D[3]),
        Xor64(state[14], D[4]), Xor64(state[15], D[5]),
        Xor64(state[16], D[1]), Xor64(state[17], D[2]), Xor64(state[18], D[3]),
        Xor64(state[19], D[4]), Xor64(state[20], D[5]),
        Xor64(state[21], D[1]), Xor64(state[22], D[2]), Xor64(state[23], D[3]),
        Xor64(state[24], D[4]), Xor64(state[25], D[5]) >>
Theta(state) == ThetaXor(state, ThetaD(ThetaC(state)))

\* Rho and Pi: the loop over t with its running (x, y) visits the pairs
\* [src |-> x + 5 * y, dst |-> y + 5 * ((2 * x + 3 * y) % 5), rot |-> r[t]].
RECURSIVE RhoPiMoves(_, _, _)
RhoPiMoves(t, x, y) ==
  IF t = 24 THEN {}
  ELSE {[src |-> x + 5 * y, dst |-> y + 5 * ((2 * x + 3 * y) % 5), rot |-> r[t + 1]]}
       \cup RhoPiMoves(t + 1, y, (2 * x + 3 * y) % 5)
RhoPiTable == RhoPiMoves(0, 1, 0)
RhoPiInto == [d \in 1..24 |-> CHOOSE m \in RhoPiTable : m.dst = d]
\* B[0] = state[0]; B[dst] = rotl(state[src], rot) for each move of the loop.
RhoPiMove(state, m) == Rotl64(state[m.src + 1], m.rot)
RhoPiLane(state, into, d) ==
  IF d = 0 THEN state[1] ELSE RhoPiMove(state, into[d])
RhoPiWith(state, into) ==
  << RhoPiLane(state, into, 0), RhoPiLane(state, into, 1), RhoPiLane(state, into, 2), RhoPiLane(state, into, 3),
     RhoPiLane(state, into, 4), RhoPiLane(state, into, 5), RhoPiLane(state, into, 6), RhoPiLane(state, into, 7),
     RhoPiLane(state, into, 8), RhoPiLane(state, into, 9), RhoPiLane(state, into, 10), RhoPiLane(state, into, 11),
     RhoPiLane(state, into, 12), RhoPiLane(state, into, 13), RhoPiLane(state, into, 14), RhoPiLane(state, into, 15),
     RhoPiLane(state, into, 16), RhoPiLane(state, into, 17), RhoPiLane(state, into, 18), RhoPiLane(state, into, 19),
     RhoPiLane(state, into, 20), RhoPiLane(state, into, 21), RhoPiLane(state, into, 22), RhoPiLane(state, into, 23),
     RhoPiLane(state, into, 24) >>
RhoPi(state) == RhoPiWith(state, RhoPiInto)

\* Chi on the row starting at j (0-based), column k.
ChiLane(B, j, k) ==
  Xor64(B[j + k + 1], NotAnd64(B[j + ((k + 1) % 5) + 1], B[j + ((k + 2) % 5) + 1]))
Chi(B) ==
  << ChiLane(B, 0, 0), ChiLane(B, 0, 1), ChiLane(B, 0, 2), ChiLane(B, 0, 3), ChiLane(B, 0, 4),
     ChiLane(B, 5, 0), ChiLane(B, 5, 1), ChiLane(B, 5, 2), ChiLane(B, 5, 3), ChiLane(B, 5, 4),
     ChiLane(B, 10, 0), ChiLane(B, 10, 1), ChiLane(B, 10, 2), ChiLane(B, 10, 3), ChiLane(B, 10, 4),
     ChiLane(B, 15, 0), ChiLane(B, 15, 1), ChiLane(B, 15, 2), ChiLane(B, 15, 3), ChiLane(B, 15, 4),
     ChiLane(B, 20, 0), ChiLane(B, 20, 1), ChiLane(B, 20, 2), ChiLane(B, 20, 3), ChiLane(B, 20, 4) >>

\* One round of the permutation: Theta, Rho and Pi, Chi, Iota.
KeccakRound(state, round) ==
  CHOOSE out \in {[X EXCEPT ![1] = Xor64(@, RC[round + 1])] :
                    X \in {Chi(B) : B \in {RhoPi(T) : T \in {Theta(state)}}}} : TRUE

\* Rounds lo .. hi-1 in order: the first half's result is bound, then the
\* second half runs on it.
RECURSIVE KeccakRounds(_, _, _)
KeccakRounds(state, lo, hi) ==
  IF hi = lo + 1 THEN KeccakRound(state, lo)
  ELSE CHOOSE out \in {KeccakRounds(mid, (lo + hi) \div 2, hi) :
                         mid \in {KeccakRounds(state, lo, (lo + hi) \div 2)}} : TRUE

keccak_f(state) == KeccakRounds(state, 0, 24)

rate == 136

ZeroState == << {}, {}, {}, {}, {}, {}, {}, {}, {}, {}, {}, {}, {},
                {}, {}, {}, {}, {}, {}, {}, {}, {}, {}, {}, {} >>

\* state_bytes[i] ^= b: byte i of the state is bits 8*(i%8).. of lane i/8
\* (the uchar view of the uint64_t array on a little-endian device).
XorStateByte(state, i, b) ==
  [state EXCEPT ![(i \div 8) + 1] = Xor64(@, {8 * (i % 8) + k : k \in BitsOf(b)})]
StateByte(state, i) ==
  ByteOf({k \in 0..7 : (8 * (i % 8) + k) \in state[(i \div 8) + 1]})

Min(a, b) == IF a < b THEN a ELSE b

\* for (i < block_size) state_bytes[i] ^= input[offset + i], lane by lane.
XorBlock(state, input, offset, block_size) ==
  [l \in 1..25 |->
     Xor64(state[l],
           UNION {{8 * (i % 8) + k : k \in BitsOf(input[offset + i + 1])} :
                    i \in {j \in 0..(block_size - 1) : j \div 8 = l - 1}})]

\* The absorption loop; perms counts the calls of keccak_f.
RECURSIVE Absorb(_, _, _, _, _)
Absorb(state, perms, input, input_len, offset) ==
  IF ~(offset < input_len) THEN [state |-> state, perms |-> perms]
  ELSE LET block_size == Min(rate, input_len - offset)
           xored == XorBlock(state, input, offset, block_size)
       IN IF block_size = rate
            THEN CHOOSE out \in {Absorb(next, perms + 1, input, input_len, offset + rate) :
                                    next \in {keccak_f(xored)}} : TRUE
            ELSE [state |-> xored, perms |-> perms]

\* keccak256_thread with the number of permutations it ran.
\* Padding: state_bytes[input_len % rate] ^= 0x01, state_bytes[rate - 1] ^= 0x80.
Pad(state, input_len) ==
  XorStateByte(XorStateByte(state, input_len % rate, 1), rate - 1, 128)
\* output[i] = state_bytes[i] for i < 32.
Squeeze(state, perms) ==
  [output |-> [i \in 1..32 |-> StateByte(state, i - 1)] \o <<>>, perms |-> perms]
PadAndSqueeze(absorbed, input_len) ==
  Squeeze(keccak_f(Pad(absorbed.state, input_len)), absorbed.perms + 1)
keccak256_run(input, input_len) ==
  PadAndSqueeze(Absorb(ZeroState, 0, input, input_len, 0), input_len)

keccak256_thread(input, input_len) == keccak256_run(input, input_len).output

(***************************************************************************)
(* go-ethereum helpers called by the Go predictor                         *)
(***************************************************************************)
\* The character literals of the code, as byte values.
Ch0 == 48
Ch9 == 57
ChLowerA == 97
ChLowerF == 102
ChUpperA == 65
ChUpperF == 70
ChUpperZ == 90
ChLowerX == 120
ChUpperX == 88
\* A letter that is no hex digit, used in the inputs.
ChLowerG == Ord("g")

hextable == Bytes("0123456789abcdef")

\* fmt.Sprintf("%x", bytes), hex.EncodeToString(bytes): two lowercase digits a byte.
HexEncode(bytes) ==
  [i \in 1..(2 * Len(bytes)) |->
     IF i % 2 = 1 THEN hextable[(bytes[(i + 1) \div 2] \div 16) + 1]
                  ELSE hextable[(bytes[i \div 2] % 16) + 1]] \o <<>>

\* strings.ToLower on a string of ASCII bytes.
ToLower(s) ==
  [i \in 1..Len(s) |-> IF s[i] >= ChUpperA /\ s[i] <= ChUpperZ THEN s[i] + 32 ELSE s[i]]
    \o <<>>

\* encoding/hex fromHexChar: the value of a digit, 16 for any other byte.
fromHexChar(c) ==
  IF c >= Ch0 /\ c <= Ch9 THEN c - Ch0
  ELSE IF c >= ChLowerA /\ c <= ChLowerF THEN c - ChLowerA + 10
  ELSE IF c >= ChUpperA /\ c <= ChUpperF THEN c - ChUpperA + 10
  ELSE 16

\* common.Hex2Bytes: hex.DecodeString with the error dropped, which keeps the
\* bytes decoded before the first pair that holds a non-digit.
Hex2Bytes(str) ==
  LET n == Len(str) \div 2
      bad == {j \in 1..n : fromHexChar(str[2 * j - 1]) = 16 \/ fromHexChar(str[2 * j]) = 16}
      decoded == IF bad = {} THEN n ELSE (CHOOSE j \in bad : \A k \in bad : j <= k) - 1
  IN [j \in 1..decoded |-> 16 * fromHexChar(str[2 * j - 1]) + fromHexChar(str[2 * j])]
       \o <<>>

has0xPrefix(str) ==
  Len(str) >= 2 /\ str[1] = Ch0 /\ (str[2] = ChLowerX \/ str[2] = ChUpperX)

\* common.FromHex: an optional 0x prefix, an odd length padded with a leading 0.
FromHex(s) ==
  LET s1 == IF has0xPrefix(s) THEN SliceFrom(s, 2) ELSE s
      s2 == IF Len(s1) % 2 = 1 THEN <<Ch0>> \o s1 ELSE s1
  IN Hex2Bytes(s2)

\* common.BytesToAddress: the last 20 bytes, left-padded with zeros.
BytesToAddress(b) ==
  LET c == IF Len(b) > 20 THEN SliceFrom(b, Len(b) - 20) ELSE b
  IN [i \in 1..20 |-> IF i <= 20 - Len(c) THEN 0 ELSE c[i - (20 - Len(c))]] \o <<>>

HexToAddress(s) == BytesToAddress(FromHex(s))

\* crypto.Keccak256: legacy Keccak-256 of the whole input.
Keccak256(data) == keccak256_thread(data, Len(data))

\* Variant: the digits are left in lower case.
AddressHexNoChecksum(a) == <<Ch0, ChLowerX>> \o HexEncode(a)

\* common.Address.Hex: "0x" and the EIP-55 checksummed digits (checksumHex).
hashByte(hash, i) ==
  IF i % 2 = 0 THEN hash[(i \div 2) + 1] \div 16 ELSE hash[(i \div 2) + 1] % 16
checksumDigits(buf, hash) ==
  [i \in 1..Len(buf) |->
     IF buf[i] > Ch9 /\ hashByte(hash, i - 1) > 7 THEN buf[i] - 32 ELSE buf[i]] \o <<>>
checksumHex(buf) == <<Ch0, ChLowerX>> \o checksumDigits(buf, Keccak256(buf))

\* Variant: the 40 digits are returned without 0x.
AddressHexNoPrefix(a) == SliceFrom(checksumHex(HexEncode(a)), 2)

AddressHex(a) == checksumHex(HexEncode(a))

(***************************************************************************)
(* go/create2.go                                                           *)
(***************************************************************************)
MinProxyBytecodePrefix == Bytes("3d602d80600a3d3981f3363d3d373d3d3d363d73")
MinProxyBytecodeSuffix == Bytes("5af43d82803e903d91602b57fd5bf3ff")

\* The error values; nil is the record NoError.
NoError == [msg |-> "nil", arg |-> <<>>]
ErrImplementation(address) == [msg |-> "invalid implementation address: %s", arg |-> address]
ErrDeployer(address) == [msg |-> "invalid deployer address: %s", arg |-> address]
ErrSalt == [msg |-> "salt length must not exceed 32 characters", arg |-> <<>>]

\* Variant: Store records the opposite answer.
StoreNegated(cache, key, value) ==
  [a \in (DOMAIN cache) \cup {key} |-> IF a = key THEN ~value ELSE cache[a]]

\* sync.Map of address string -> bool, as a function; Load and Store.
EmptyCache == [a \in {} |-> TRUE]
Loaded(cache, key) == key \in DOMAIN cache
Store(cache, key, value) ==
  [a \in (DOMAIN cache) \cup {key} |-> IF a = key THEN value ELSE cache[a]]

\* Variant: the capital letters A-F are not digits.
IsHexDigitLowerOnly(ch) ==
  \/ (ch >= Ch0 /\ ch <= Ch9)
  \/ (ch >= ChLowerA /\ ch <= ChLowerF)

IsHexDigit(ch) ==
  \/ (ch >= Ch0 /\ ch <= Ch9)
  \/ (ch >= ChLowerA /\ ch <= ChLowerF)
  \/ (ch >= ChUpperA /\ ch <= ChUpperF)

\* Variant: a string refused by the length or prefix test is stored as false.
isValidAddressStoresRejected(cache, address) ==
  IF Len(address) # 42 \/ address[1] # Ch0 \/ (address[2] # ChLowerX /\ address[2] # ChUpperX)
    THEN [ret |-> FALSE, cache |-> Store(cache, address, FALSE)]
  ELSE IF Loaded(cache, address)
    THEN [ret |-> cache[address], cache |-> cache]
  ELSE IF \E i \in 2..41 : ~IsHexDigit(address[i + 1])
    THEN [ret |-> FALSE, cache |-> Store(cache, address, FALSE)]
  ELSE [ret |-> TRUE, cache |-> Store(cache, address, TRUE)]

\* Variant: the digit loop stops one character early.
isValidAddressShortLoop(cache, address) ==
  IF Len(address) # 42 \/ address[1] # Ch0 \/ (address[2] # ChLowerX /\ address[2] # ChUpperX)
    THEN [ret |-> FALSE, cache |-> cache]
  ELSE IF Loaded(cache, address)
    THEN [ret |-> cache[address], cache |-> cache]
  ELSE IF \E i \in 2..40 : ~IsHexDigit(address[i + 1])
    THEN [ret |-> FALSE, cache |-> Store(cache, address, FALSE)]
  ELSE [ret |-> TRUE, cache |-> Store(cache, address, TRUE)]

\* Create2.isValidAddress: the returned bool and the cache it leaves.
isValidAddress(cache, address) ==
  IF Len(address) # 42 \/ address[1] # Ch0 \/ (address[2] # ChLowerX /\ address[2] # ChUpperX)
    THEN [ret |-> FALSE, cache |-> cache]
  ELSE IF Loaded(cache, address)
    THEN [ret |-> cache[address], cache |-> cache]
  ELSE IF \E i \in 2..41 : ~IsHexDigit(address[i + 1])
    THEN [ret |-> FALSE, cache |-> Store(cache, address, FALSE)]
  ELSE [ret |-> TRUE, cache |-> Store(cache, address, TRUE)]

\* Variant: the zero bytes lead and the bytes of s trail.
stringToHexLeftPad(s, size) ==
  IF Len(s) > size THEN <<>>
  ELSE HexEncode([i \in 1..size |-> IF i <= size - Len(s) THEN 0 ELSE s[i - (size - Len(s))]]
                 \o <<>>)

\* stringToHex: "" when s is longer than size, else s zero-padded on the right, in hex.
stringToHex(s, size) ==
  IF Len(s) > size THEN <<>>
  ELSE HexEncode([i \in 1..size |-> IF i <= Len(s) THEN s[i] ELSE 0] \o <<>>)

\* PredictDeterministicAddress after its three checks: the builder, the two
\* hashes and the address, with the intermediate values it goes through.
\* Lines 104..107 on secondHash.
DeriveFromSecondHash(bytecode, firstBytes, firstHash, fullBytecode, secondBytes, secondHash, address) ==
  [bytecode |-> bytecode, firstBytes |-> firstBytes, firstHash |-> firstHash,
   fullBytecode |-> fullBytecode, secondBytes |-> secondBytes,
   secondHash |-> secondHash, addressBytes |-> address, address |-> AddressHex(address)]
\* hashHex[len(hashHex)-40:]
LastForty(hashHex) == SliceFrom(hashHex, Len(hashHex) - 40)
AddressOfHash(secondHash) ==
  HexToAddress(<<Ch0, ChLowerX>> \o LastForty(HexEncode(secondHash)))
DeriveFromSecondBytes(bytecode, firstBytes, firstHash, fullBytecode, secondBytes, secondHash) ==
  DeriveFromSecondHash(bytecode, firstBytes, firstHash, fullBytecode, secondBytes, secondHash,
                       AddressOfHash(secondHash))
\* Lines 100..101 on fullBytecode.
DeriveFromFullBytecode(bytecode, firstBytes, firstHash, fullBytecode, secondBytes) ==
  DeriveFromSecondBytes(bytecode, firstBytes, firstHash, fullBytecode, secondBytes,
                        Keccak256(secondBytes))
\* Lines 96..100 on firstHash.
DeriveFromFirstHash(bytecode, firstBytes, firstHash, fullBytecode) ==
  DeriveFromFullBytecode(bytecode, firstBytes, firstHash, fullBytecode,
                         FromHex(Slice(fullBytecode, 110, 280)))
\* Lines 93..96 on firstBytes.
DeriveFromFirstBytes(bytecode, firstBytes, firstHash) ==
  DeriveFromFirstHash(bytecode, firstBytes, firstHash, bytecode \o HexEncode(firstHash))
\* Lines 92..93 on the string the builder holds.
DeriveFromBytecode(bytecode, firstBytes) ==
  DeriveFromFirstBytes(bytecode, firstBytes, Keccak256(firstBytes))
\* Variant: the deployer is written before the implementation.
BuildBytecodeDeployerFirst(implementation, deployer, salt) ==
  MinProxyBytecodePrefix \o ToLower(SliceFrom(deployer, 2))
    \o MinProxyBytecodeSuffix \o ToLower(SliceFrom(implementation, 2))
    \o stringToHex(salt, 32)

\* Lines 83..89: the string the builder holds.
BuildBytecode(implementation, deployer, salt) ==
  MinProxyBytecodePrefix \o ToLower(SliceFrom(implementation, 2))
    \o MinProxyBytecodeSuffix \o ToLower(SliceFrom(deployer, 2))
    \o stringToHex(salt, 32)
HashFirstPart(bytecode) == DeriveFromBytecode(bytecode, FromHex(SliceTo(bytecode, 110)))
DeriveAddress(implementation, deployer, salt) ==
  HashFirstPart(BuildBytecode(implementation, deployer, salt))

(***************************************************************************)
(* The inputs of the model: the addresses of go/main.go and spellings      *)
(* derived from them, and salts of every length up to MaxSaltLen.          *)
(***************************************************************************)
Implementation == Bytes("0xa84c57e9966df7df79bff42f35c68aae71796f64")
Deployer == Bytes("0xfe15afcb5b9831b8af5fd984678250e95de8e312")
TestSalt == Bytes("test-salt-test")
ExpectedAddress == Bytes("0x22FBFB2264B9Cd1ADe8ce5013012c817878D783C")

MaxSaltLen == 34

\* The address a with its prefix written 0X, and with byte ch at offset pos.
WithUpperPrefix(a) == [a EXCEPT ![2] = ChUpperX]
WithByte(a, pos, ch) == [a EXCEPT ![pos + 1] = ch]

SaltOfLen(n) == [i \in 1..n |-> ChLowerA + (i % 26)] \o <<>>
SaltsByLength == {SaltOfLen(n) : n \in 0..MaxSaltLen}

ImplementationChoices ==
  { Implementation, WithUpperPrefix(Implementation),
    WithByte(Implementation, 2, ChLowerG), SliceTo(Implementation, 41) }
DeployerChoices ==
  { Deployer, WithUpperPrefix(Deployer),
    WithByte(Deployer, 41, ChLowerG), SliceFrom(Deployer, 2) }
SaltChoices == { TestSalt, SaltOfLen(MaxSaltLen) }

PredictInputs ==
  (ImplementationChoices \X DeployerChoices \X SaltChoices)
  \cup {<<Implementation, Deployer, s>> : s \in SaltsByLength}

\* Addresses passed to isValidAddress on their own.
AddressChoices ==
  ImplementationChoices \cup DeployerChoices \cup {<<>>, Implementation \o <<Ch0>>}

(***************************************************************************)
(* The inputs of runBenchmark: the constants a build is made with, the     *)
(* bytes rand.Read delivers, and the salts of the earlier benchmark.       *)
(***************************************************************************)
\* The number of iterations of the loop, and of iterations between reports.
TotalIterations == 4
ReportInterval == 2

\* TotalIterations as go/main.go, unnamed/part_000 and bun/src/main.ts have it.
TotalIterationsMain == 50000000
TotalIterations000 == 5000000
TotalIterationsBun == 5000000

\* fmt.Sprintf("%d", n) for n >= 0.
RECURSIVE FormatInt(_)
FormatInt(n) ==
  IF n < 10 THEN <<Ch0 + n>> ELSE FormatInt(n \div 10) \o <<Ch0 + (n % 10)>>

\* Variant: the index is written 28 digits wide.
SaltOfIterationWide(i) ==
  Bytes("Salt-") \o [k \in 1..(28 - Len(FormatInt(i))) |-> Ch0] \o FormatInt(i)

\* fmt.Sprintf("Salt-%d", i) of unnamed/part_000.
SaltOfIteration(i) == Bytes("Salt-") \o FormatInt(i)

\* make([]byte, 16), and the contents rand.Read may leave in it.
ZeroBytes16 == [k \in 1..16 |-> 0] \o <<>>
RandomBytesChoices ==
  { ZeroBytes16, [k \in 1..16 |-> 255] \o <<>>, [k \in 1..16 |-> (k * 37) % 256] \o <<>> }

\* (Implementation, Deployer) of a build: the constants of the repository
\* and builds whose constants are not valid addresses.
BenchConfigs ==
  { <<Implementation, Deployer>>,
    <<WithUpperPrefix(Implementation), Deployer>>,
    <<WithByte(Implementation, 2, ChLowerG), Deployer>>,
    <<Implementation, SliceFrom(Deployer, 2)>> }

\* Every (implementation, deployer, salt) runBenchmark passes to the predictor.
BenchInputs ==
  {<<c[1], c[2], HexEncode(b)>> : c \in BenchConfigs, b \in RandomBytesChoices}
BenchInputs000 ==
  {<<c[1], c[2], SaltOfIteration(i)>> : c \in BenchConfigs, i \in 0..TotalIterations}

(***************************************************************************)
(* go/create2.go: Create2.PredictDeterministicAddress                      *)
(***************************************************************************)
\* Variant: a salt of exactly 32 bytes is refused.
PredictChecksSaltOffByOne(cache, implementation, deployer, salt) ==
  LET v1 == isValidAddress(cache, implementation)
      v2 == isValidAddress(v1.cache, deployer)
  IN IF ~v1.ret
       THEN [err |-> ErrImplementation(implementation), cache |-> v1.cache]
     ELSE IF ~v2.ret
       THEN [err |-> ErrDeployer(deployer), cache |-> v2.cache]
     ELSE IF Len(salt) >= 32
       THEN [err |-> ErrSalt, cache |-> v2.cache]
     ELSE [err |-> NoError, cache |-> v2.cache]

\* Variant: the deployer is checked before the implementation.
PredictChecksDeployerFirst(cache, implementation, deployer, salt) ==
  LET v1 == isValidAddress(cache, deployer)
      v2 == isValidAddress(v1.cache, implementation)
  IN IF ~v1.ret
       THEN [err |-> ErrDeployer(deployer), cache |-> v1.cache]
     ELSE IF ~v2.ret
       THEN [err |-> ErrImplementation(implementation), cache |-> v2.cache]
     ELSE IF Len(salt) > 32
       THEN [err |-> ErrSalt, cache |-> v2.cache]
     ELSE [err |-> NoError, cache |-> v2.cache]

\* Variant: a salt that passes its check is remembered in the cache.
PredictChecksCachesSalt(cache, implementation, deployer, salt) ==
  LET v1 == isValidAddress(cache, implementation)
      v2 == isValidAddress(v1.cache, deployer)
  IN IF ~v1.ret
       THEN [err |-> ErrImplementation(implementation), cache |-> v1.cache]
     ELSE IF ~v2.ret
       THEN [err |-> ErrDeployer(deployer), cache |-> v2.cache]
     ELSE IF Len(salt) > 32
       THEN [err |-> ErrSalt, cache |-> v2.cache]
     ELSE [err |-> NoError, cache |-> Store(v2.cache, salt, TRUE)]

\* The three argument checks, in the order of the code: the error returned
\* (NoError when all pass) and the cache the calls of isValidAddress leave.
PredictChecks(cache, implementation, deployer, salt) ==
  LET v1 == isValidAddress(cache, implementation)
      v2 == isValidAddress(v1.cache, deployer)
  IN IF ~v1.ret
       THEN [err |-> ErrImplementation(implementation), cache |-> v1.cache]
     ELSE IF ~v2.ret
       THEN [err |-> ErrDeployer(deployer), cache |-> v2.cache]
     ELSE IF Len(salt) > 32
       THEN [err |-> ErrSalt, cache |-> v2.cache]
     ELSE [err |-> NoError, cache |-> v2.cache]

\* DeriveAddress on the inputs that pass the checks on a fresh instance,
\* computed once.
DerivedTable ==
  {[key |-> t, value |-> DeriveAddress(t[1], t[2], t[3])] :
     t \in {u \in PredictInputs \cup BenchInputs :
              PredictChecks(EmptyCache, u[1], u[2], u[3]).err = NoError}}
\* The value of the entry in matches, or otherwise when there is none.
ValueIn(matches, otherwise) ==
  IF matches = {} THEN otherwise ELSE (CHOOSE e \in matches : TRUE).value

\* Spellings of the two addresses of go/main.go that differ in the case of
\* their hex letters: every letter a capital, and one letter a capital.
UpperDigits(a) ==
  [i \in 1..Len(a) |-> IF i > 2 /\ a[i] >= ChLowerA /\ a[i] <= ChLowerF THEN a[i] - 32 ELSE a[i]]
    \o <<>>
SpellingInputs ==
  { Implementation, UpperDigits(Implementation), WithByte(Implementation, 2, ChUpperA) }
    \X { Deployer, UpperDigits(Deployer) } \X { TestSalt }

\* Calls that pass an address the predictor returned as implementation or
\* as deployer.
ReturnedInputs ==
  UNION {{ <<e.value.address, Deployer, TestSalt>>, <<Implementation, e.value.address, TestSalt>> } :
           e \in {d \in DerivedTable : d.key = <<Implementation, Deployer, TestSalt>>}}

\* DeriveAddress on these inputs, computed once.
SpellingTable ==
  {[key |-> t, value |-> DeriveAddress(t[1], t[2], t[3])] :
     t \in {u \in (SpellingInputs \cup ReturnedInputs) \ PredictInputs :
              PredictChecks(EmptyCache, u[1], u[2], u[3]).err = NoError}}

Derived(implementation, deployer, salt) ==
  ValueIn({e \in DerivedTable \cup SpellingTable : e.key = <<implementation, deployer, salt>>},
          DeriveAddress(implementation, deployer, salt))

NoDerivation ==
  [bytecode |-> <<>>, firstBytes |-> <<>>, firstHash |-> <<>>, fullBytecode |-> <<>>,
   secondBytes |-> <<>>, secondHash |-> <<>>, addressBytes |-> <<>>, address |-> <<>>]

\* (address, error), the cache the call leaves, and the intermediate values.
Returned(cache, err, derivation) ==
  [address |-> derivation.address, err |-> err, cache |-> cache, derivation |-> derivation]
PredictAfterChecks(checks, derivation) ==
  IF checks.err # NoError
    THEN Returned(checks.cache, checks.err, NoDerivation)
    ELSE Returned(checks.cache, NoError, derivation)
PredictDeterministicAddress(cache, implementation, deployer, salt) ==
  PredictAfterChecks(PredictChecks(cache, implementation, deployer, salt),
                     Derived(implementation, deployer, salt))

(***************************************************************************)
(* unnamed/part_001: the earlier Go predictor                              *)
(***************************************************************************)
isValidAddress001(cache, address) ==
  IF Len(address) # 42 \/ address[1] # Ch0 \/ address[2] # ChLowerX
    THEN [ret |-> FALSE, cache |-> cache]
  ELSE IF Loaded(cache, address)
    THEN [ret |-> cache[address], cache |-> cache]
  ELSE IF \E i \in 2..41 : ~IsHexDigit(address[i + 1])
    THEN [ret |-> FALSE, cache |-> Store(cache, address, FALSE)]
  ELSE [ret |-> TRUE, cache |-> Store(cache, address, TRUE)]

stringToHex001(s, size) ==
  IF Len(s) > size THEN <<>>
  ELSE HexEncode([i \in 1..size |-> IF i <= Len(s) THEN s[i] ELSE 0] \o <<>>)

PredictChecks001(cache, implementation, deployer, salt) ==
  LET v1 == isValidAddress001(cache, implementation)
      v2 == isValidAddress001(v1.cache, deployer)
  IN IF ~v1.ret
       THEN [err |-> ErrImplementation(implementation), cache |-> v1.cache]
     ELSE IF ~v2.ret
       THEN [err |-> ErrDeployer(deployer), cache |-> v2.cache]
     ELSE IF Len(salt) > 32
       THEN [err |-> ErrSalt, cache |-> v2.cache]
     ELSE [err |-> NoError, cache |-> v2.cache]

\* Lines 106..110 on secondHash.
DeriveFromSecondHash001(bytecode, firstBytes, firstHash, fullBytecode, secondBytes, secondHash, address) ==
  [bytecode |-> bytecode, firstBytes |-> firstBytes, firstHash |-> firstHash,
   fullBytecode |-> fullBytecode, secondBytes |-> secondBytes,
   secondHash |-> secondHash, addressBytes |-> address, address |-> AddressHex(address)]
DeriveFromSecondBytes001(bytecode, firstBytes, firstHash, fullBytecode, secondBytes, secondHash) ==
  DeriveFromSecondHash001(bytecode, firstBytes, firstHash, fullBytecode, secondBytes,
                          secondHash, AddressOfHash(secondHash))
\* Lines 102..104 on the extended bytecode.
DeriveFromFullBytecode001(bytecode, firstBytes, firstHash, fullBytecode, secondBytes) ==
  DeriveFromSecondBytes001(bytecode, firstBytes, firstHash, fullBytecode, secondBytes,
                           Keccak256(secondBytes))
DeriveFromFirstHash001(bytecode, firstBytes, firstHash, fullBytecode) ==
  DeriveFromFullBytecode001(bytecode, firstBytes, firstHash, fullBytecode,
                            FromHex(<<Ch0, ChLowerX>> \o Slice(fullBytecode, 110, 280)))
\* Lines 99..100 on firstBytes.
DeriveFromFirstBytes001(bytecode, firstBytes, firstHash) ==
  DeriveFromFirstHash001(bytecode, firstBytes, firstHash, bytecode \o HexEncode(firstHash))
DeriveFromBytecode001(bytecode, firstBytes) ==
  DeriveFromFirstBytes001(bytecode, firstBytes, Keccak256(firstBytes))
\* Lines 86..95: saltHex, cleanImplementation, cleanDeployer and the bytecode.
BuildBytecode001(implementation, deployer, salt) ==
  MinProxyBytecodePrefix \o ToLower(SliceFrom(implementation, 2))
    \o MinProxyBytecodeSuffix \o ToLower(SliceFrom(deployer, 2))
    \o stringToHex001(salt, 32)
\* Lines 97..98: firstPart and firstBytes.
HashFirstPart001(bytecode) ==
  DeriveFromBytecode001(bytecode, FromHex(<<Ch0, ChLowerX>> \o SliceTo(bytecode, 110)))
DeriveAddress001(implementation, deployer, salt) ==
  HashFirstPart001(BuildBytecode001(implementation, deployer, salt))

PredictInputs001 ==
  {Implementation, WithUpperPrefix(Implementation), WithByte(Implementation, 2, ChLowerG)}
  \X {Deployer, WithUpperPrefix(Deployer), WithByte(Deployer, 41, ChLowerG)}
  \X SaltChoices

DerivedTable001 ==
  {[key |-> t, value |-> DeriveAddress001(t[1], t[2], t[3])] :
     t \in {u \in PredictInputs001 \cup BenchInputs000 :
              PredictChecks001(EmptyCache, u[1], u[2], u[3]).err = NoError}}
Derived001(implementation, deployer, salt) ==
  ValueIn({e \in DerivedTable001 : e.key = <<implementation, deployer, salt>>},
          DeriveAddress001(implementation, deployer, salt))

PredictDeterministicAddress001(cache, implementation, deployer, salt) ==
  PredictAfterChecks(PredictChecks001(cache, implementation, deployer, salt),
                     Derived001(implementation, deployer, salt))

(***************************************************************************)
(* unnamed/part_003: the Metal kernel compute_create2_batch, launched with *)
(* use_gpu_random = 0, so that every salt is read from the salts buffer.   *)
(***************************************************************************)
HexByte(h) == 16 * HexValue(SubSeq(h, 1, 1)) + HexValue(SubSeq(h, 2, 2))

\* uchar arithmetic: the value returned is taken modulo 256.
hex_to_value(c) ==
  IF c <= Ch9 THEN (c - Ch0) % 256
  ELSE (And8(c, HexByte("df")) - ChUpperA + 10) % 256

hex_decode_device(hex, len) ==
  [i \in 1..len |->
     Or8((hex_to_value(hex[2 * i - 1]) * 16) % 256, hex_to_value(hex[2 * i]))] \o <<>>

hex_encode(bytes, len) ==
  [k \in 1..(2 * len) |->
     LET b == bytes[(k + 1) \div 2]
         nibble == IF k % 2 = 1 THEN b \div 16 ELSE And8(b, 15)
     IN IF nibble < 10 THEN Ch0 + nibble ELSE ChLowerA + nibble - 10] \o <<>>

PREFIX ==
  << HexByte("3d"), HexByte("60"), HexByte("2d"), HexByte("80"), HexByte("60"),
     HexByte("0a"), HexByte("3d"), HexByte("39"), HexByte("81"), HexByte("f3"),
     HexByte("36"), HexByte("3d"), HexByte("3d"), HexByte("37"), HexByte("3d"),
     HexByte("3d"), HexByte("3d"), HexByte("36"), HexByte("3d"), HexByte("73") >>
SUFFIX ==
  << HexByte("5a"), HexByte("f4"), HexByte("3d"), HexByte("82"), HexByte("80"),
     HexByte("3e"), HexByte("90"), HexByte("3d"), HexByte("91"), HexByte("60"),
     HexByte("2b"), HexByte("57"), HexByte("fd"), HexByte("5b"), HexByte("f3"),
     HexByte("ff") >>

\* The same constants in the kernel of README.md and in the Tron kernel of
\* bun/src/main.ts.
PREFIX_README ==
  << HexByte("3d"), HexByte("60"), HexByte("2d"), HexByte("80"), HexByte("60"),
     HexByte("0a"), HexByte("3d"), HexByte("39"), HexByte("81"), HexByte("f3"),
     HexByte("36"), HexByte("3d"), HexByte("3d"), HexByte("37"), HexByte("3d"),
     HexByte("3d"), HexByte("3d"), HexByte("36"), HexByte("3d"), HexByte("73") >>
SUFFIX_README ==
  << HexByte("5a"), HexByte("f4"), HexByte("3d"), HexByte("82"), HexByte("80"),
     HexByte("3e"), HexByte("90"), HexByte("3d"), HexByte("91"), HexByte("60"),
     HexByte("2b"), HexByte("57"), HexByte("fd"), HexByte("5b"), HexByte("f3"),
     HexByte("ff") >>
PREFIX_TRON ==
  << HexByte("3d"), HexByte("60"), HexByte("2d"), HexByte("80"), HexByte("60"),
     HexByte("0a"), HexByte("3d"), HexByte("39"), HexByte("81"), HexByte("f3"),
     HexByte("36"), HexByte("3d"), HexByte("3d"), HexByte("37"), HexByte("3d"),
     HexByte("3d"), HexByte("3d"), HexByte("36"), HexByte("3d"), HexByte("73") >>

\* Variant: the Tron kernel uses the suffix of the EVM kernels.
TRON_SUFFIX_AsEvm == SUFFIX

TRON_SUFFIX ==
  << HexByte("5a"), HexByte("f4"), HexByte("3d"), HexByte("82"), HexByte("80"),
     HexByte("3e"), HexByte("90"), HexByte("3d"), HexByte("91"), HexByte("60"),
     HexByte("2b"), HexByte("57"), HexByte("fd"), HexByte("5b"), HexByte("f3"),
     HexByte("41") >>

\* The template of the Tron kernel: PREFIX, the implementation, TRON_SUFFIX,
\* the deployer.
bytecode_template_tron(params) ==
  PREFIX_TRON \o hex_decode_device(params.implementation, 20)
              \o TRON_SUFFIX \o hex_decode_device(params.deployer, 20)

\* PREFIX, the implementation, SUFFIX, the deployer: 76 bytes.
bytecode_template(params) ==
  PREFIX \o hex_decode_device(params.implementation, 20)
         \o SUFFIX \o hex_decode_device(params.deployer, 20)

\* The bytes keccak256_thread(input, input_len) reads from its buffer.
HashInput(input, input_len) == SubSeq(input, 1, input_len)

\* Variant: the remaining bytecode is copied from one byte too early.
SecondPartOffByOne(bytecode, first_hash) ==
  ([i \in 1..53 |-> bytecode[54 + i]] \o <<>>) \o ([i \in 1..32 |-> first_hash[i]] \o <<>>)

\* second_part: bytecode[55 + i] for i < 53, then first_hash[i] for i < 32.
SecondPart(bytecode, first_hash) ==
  ([i \in 1..53 |-> bytecode[55 + i]] \o <<>>) \o ([i \in 1..32 |-> first_hash[i]] \o <<>>)

\* Variant: the nibble tested is the low one for even i and the high one for odd i.
ApplyChecksumSwappedNibbles(address_hex, address_hash) ==
  [k \in 1..40 |->
     LET c == address_hex[k]
         byte_value == address_hash[((k - 1) \div 2) + 1]
         nibble_value == IF (k - 1) % 2 = 0 THEN And8(byte_value, 15) ELSE byte_value \div 16
     IN IF c >= ChLowerA /\ c <= ChLowerF /\ nibble_value >= 8 THEN c - 32 ELSE c] \o <<>>

\* Variant: a letter is raised only when its nibble exceeds 8.
ApplyChecksumAbove8(address_hex, address_hash) ==
  [k \in 1..40 |->
     LET c == address_hex[k]
         byte_value == address_hash[((k - 1) \div 2) + 1]
         nibble_value == IF (k - 1) % 2 = 0 THEN byte_value \div 16 ELSE And8(byte_value, 15)
     IN IF c >= ChLowerA /\ c <= ChLowerF /\ nibble_value > 8 THEN c - 32 ELSE c] \o <<>>

\* "Apply checksum": the loop over the 40 characters of address_hex.
ApplyChecksum(address_hex, address_hash) ==
  [k \in 1..40 |->
     LET c == address_hex[k]
         byte_value == address_hash[((k - 1) \div 2) + 1]
         nibble_value == IF (k - 1) % 2 = 0 THEN byte_value \div 16 ELSE And8(byte_value, 15)
     IN IF c >= ChLowerA /\ c <= ChLowerF /\ nibble_value >= 8 THEN c - 32 ELSE c] \o <<>>

\* One pass of the loop body for index idx: every buffer it fills, the three
\* inputs it hashes, and the record it stores in results[idx].
\* Lines 333..354: the checksum is applied and the result stored.
IterationStore(idx, salt_str, bytecode, first_hash, second_part, second_hash, address_bytes, address_hex, address_hash) ==
  [op |-> "iteration", idx |-> idx, salt_str |-> salt_str, bytecode |-> bytecode,
   first_hash |-> first_hash, second_part |-> second_part,
   second_hash |-> second_hash, address_bytes |-> address_bytes,
   address_hex |-> address_hex, address_hash |-> address_hash,
   hashInputs |-> << HashInput(bytecode, 55), HashInput(second_part, 85),
                     HashInput(address_hex, 40) >>,
   result |-> [address |-> ApplyChecksum(address_hex, address_hash), salt_index |-> idx]]
\* Lines 330..331: the checksum hash of address_hex.
IterationChecksumHash(idx, salt_str, bytecode, first_hash, second_part, second_hash, address_bytes, address_hex) ==
  IterationStore(idx, salt_str, bytecode, first_hash, second_part, second_hash, address_bytes,
                 address_hex, keccak256_thread(address_hex, 40))
\* Lines 326..327: address_hex.
IterationHexEncode(idx, salt_str, bytecode, first_hash, second_part, second_hash, address_bytes) ==
  IterationChecksumHash(idx, salt_str, bytecode, first_hash, second_part, second_hash,
                        address_bytes, hex_encode(address_bytes, 20))
\* Lines 318..323: address_bytes[i] = second_hash[12 + i].
IterationAddressBytes(idx, salt_str, bytecode, first_hash, second_part, second_hash) ==
  IterationHexEncode(idx, salt_str, bytecode, first_hash, second_part, second_hash,
                     [i \in 1..20 |-> second_hash[12 + i]] \o <<>>)
\* Lines 315..316: the second hash.
IterationSecondHash(idx, salt_str, bytecode, first_hash, second_part) ==
  IterationAddressBytes(idx, salt_str, bytecode, first_hash, second_part,
                        keccak256_thread(second_part, 85))
\* Lines 300..313: second_part.
IterationSecondPart(idx, salt_str, bytecode, first_hash) ==
  IterationSecondHash(idx, salt_str, bytecode, first_hash, SecondPart(bytecode, first_hash))
\* Lines 296..298: the first hash.
IterationFirstHash(idx, salt_str, bytecode) ==
  IterationSecondPart(idx, salt_str, bytecode, keccak256_thread(bytecode, 55))
\* Lines 282..294: the salt is copied behind the template.
IterationBytecode(params, idx, salt_str) ==
  IterationFirstHash(idx, salt_str, bytecode_template(params) \o salt_str)
KernelIteration(params, salts, idx) ==
  IterationBytecode(params, idx, [i \in 1..32 |-> salts[idx * 32 + i]] \o <<>>)

\* The launch of the model: a grid of GridSize threads over BatchSize salts.
BatchSize == 7
AddressesPerThread == 2
GridSize == 5

\* The salt string behind slot idx of the salts buffer, and the buffer: each
\* string in its 32-byte slot, zero bytes after it.
KernelSaltSource(idx) ==
  IF idx = 0 THEN TestSalt ELSE SaltOfLen(((idx - 1) * 16) % 33)
KernelSalts ==
  [k \in 1..(32 * BatchSize) |->
     LET src == KernelSaltSource((k - 1) \div 32)
         i == ((k - 1) % 32) + 1
     IN IF i <= Len(src) THEN src[i] ELSE 0] \o <<>>
KernelParams ==
  [implementation |-> SliceFrom(Implementation, 2), deployer |-> SliceFrom(Deployer, 2),
   batch_size |-> BatchSize, addresses_per_thread |-> AddressesPerThread,
   use_gpu_random |-> 0]

\* KernelIteration for every index of the batch, computed once.
KernelTable ==
  {KernelIteration(KernelParams, KernelSalts, idx) : idx \in 0..(BatchSize - 1)}
KernelIterationAt(idx) == CHOOSE e \in KernelTable : e.idx = idx

(***************************************************************************)
(* The kernel of README.md, compute_create2_batch before its optimisation: *)
(* one thread per salt, and each part of the bytecode is hex-encoded into  *)
(* bytecode_hex and decoded again before it is hashed.                     *)
(***************************************************************************)
hex_to_value_README(c) ==
  IF c >= Ch0 /\ c <= Ch9 THEN c - Ch0
  ELSE IF c >= ChLowerA /\ c <= ChLowerF THEN c - ChLowerA + 10
  ELSE IF c >= ChUpperA /\ c <= ChUpperF THEN c - ChUpperA + 10
  ELSE 0

hex_decode_device_README(hex, len) ==
  [i \in 1..len |->
     Or8((hex_to_value_README(hex[2 * i - 1]) * 16) % 256,
         hex_to_value_README(hex[2 * i]))] \o <<>>

hex_decode_thread(hex, len) ==
  [i \in 1..len |->
     Or8((hex_to_value_README(hex[2 * i - 1]) * 16) % 256,
         hex_to_value_README(hex[2 * i]))] \o <<>>

hex_chars == Bytes("0123456789abcdef")

\* Variant: the table of hex_encode holds capital letters.
hex_encode_READMEUpper(bytes, len) ==
  [k \in 1..(2 * len) |->
     LET b == bytes[(k + 1) \div 2]
     IN IF k % 2 = 1 THEN Bytes("0123456789ABCDEF")[(b \div 16) + 1]
        ELSE Bytes("0123456789ABCDEF")[And8(b, 15) + 1]] \o <<>>

hex_encode_README(bytes, len) ==
  [k \in 1..(2 * len) |->
     LET b == bytes[(k + 1) \div 2]
     IN IF k % 2 = 1 THEN hex_chars[(b \div 16) + 1]
        ELSE hex_chars[And8(b, 15) + 1]] \o <<>>

\* Lines 308..327: the checksum is applied as in the optimised kernel and
\* the result stored in results[gid].
OriginalStore(gid, bytecode, bytecode_hex, first_part, first_hash, second_part, second_hash, address_hex, address_hash) ==
  [gid |-> gid, bytecode |-> bytecode, bytecode_hex |-> bytecode_hex,
   first_part |-> first_part, first_hash |-> first_hash,
   second_part |-> second_part, second_hash |-> second_hash,
   address_hex |-> address_hex, address_hash |-> address_hash,
   result |-> [address |-> ApplyChecksum(address_hex, address_hash), salt_index |-> gid]]
\* Lines 304..306: the checksum hash.
OriginalChecksumHash(gid, bytecode, bytecode_hex, first_part, first_hash, second_part, second_hash, address_hex) ==
  OriginalStore(gid, bytecode, bytecode_hex, first_part, first_hash, second_part,
                second_hash, address_hex, keccak256_thread(address_hex, 40))
\* Lines 294..302: the last 20 bytes of the second hash, hex-encoded.
OriginalAddressHex(gid, bytecode, bytecode_hex, first_part, first_hash, second_part, second_hash) ==
  OriginalChecksumHash(gid, bytecode, bytecode_hex, first_part, first_hash, second_part,
                       second_hash,
                       hex_encode_README([i \in 1..20 |-> second_hash[12 + i]] \o <<>>, 20))
\* Lines 291..292: the second hash.
OriginalSecondHash(gid, bytecode, bytecode_hex, first_part, first_hash, second_part) ==
  OriginalAddressHex(gid, bytecode, bytecode_hex, first_part, first_hash, second_part,
                     keccak256_thread(second_part, 85))
\* Lines 287..289: 85 bytes are decoded from bytecode_hex + 110.
OriginalSecondPart(gid, bytecode, bytecode_hex, first_part, first_hash) ==
  OriginalSecondHash(gid, bytecode, bytecode_hex, first_part, first_hash,
                     hex_decode_thread(SubSeq(bytecode_hex, 111, 280), 85))
\* Lines 283..285: bytecode[55..108) is encoded at bytecode_hex + 110 and the
\* first hash at bytecode_hex + 216.
OriginalSecondHex(gid, bytecode, first_hex, first_part, first_hash) ==
  OriginalSecondPart(gid, bytecode,
                     first_hex \o hex_encode_README(SubSeq(bytecode, 56, 108), 53)
                               \o hex_encode_README(first_hash, 32),
                     first_part, first_hash)
\* Lines 280..281: the first hash.
OriginalFirstHash(gid, bytecode, first_hex, first_part) ==
  OriginalSecondHex(gid, bytecode, first_hex, first_part, keccak256_thread(first_part, 55))
\* Lines 276..278: 55 bytes are decoded from bytecode_hex.
OriginalFirstPart(gid, bytecode, first_hex) ==
  OriginalFirstHash(gid, bytecode, first_hex, hex_decode_thread(first_hex, 55))
\* Lines 273..274: the first 55 bytes are encoded into bytecode_hex.
OriginalFirstHex(gid, bytecode) ==
  OriginalFirstPart(gid, bytecode, hex_encode_README(bytecode, 55))
\* Lines 232..271: PREFIX, the implementation, SUFFIX, the deployer, the salt.
compute_create2_batch_README(params, salts, gid) ==
  OriginalFirstHex(gid, PREFIX_README \o hex_decode_device_README(params.implementation, 20)
                          \o SUFFIX_README \o hex_decode_device_README(params.deployer, 20)
                          \o ([i \in 1..32 |-> salts[gid * 32 + i]] \o <<>>))

\* The kernel of README.md for every thread below batch_size, computed once
\* (line 220: the other threads return without writing).
OriginalTable ==
  {compute_create2_batch_README(KernelParams, KernelSalts, gid) : gid \in 0..(BatchSize - 1)}
OriginalAt(gid) == CHOOSE e \in OriginalTable : e.gid = gid

(***************************************************************************)
(* State: one Create2 instance (its address cache) and the last call made  *)
(* on it; one launch of the kernel (its results buffer, where each thread  *)
(* stands, and the last loop pass executed).  Variable names are kept      *)
(* distinct from every operator parameter.                                 *)
(***************************************************************************)
VARIABLES addressCache, call, results, threads, iteration, bench, workers
vars == <<addressCache, call, results, threads, iteration, bench, workers>>
kernelVars == <<results, threads, iteration>>
\* One run of runBenchmark or of the test mode, and the goroutines calling into
\* one instance.
benchVars == <<bench, workers>>

NoCall == [op |-> "none"]
NoIteration == [op |-> "none"]
NoBench == [pc |-> "none"]

\* No benchmark runs and no worker exists.
BenchIdle ==
  /\ bench = NoBench
  /\ workers = <<>>

\* No kernel is launched.
KernelIdle ==
  /\ results = <<>>
  /\ threads = <<>>
  /\ iteration = NoIteration

Init ==
  /\ addressCache = EmptyCache
  /\ call = NoCall
  /\ KernelIdle
  /\ BenchIdle

\* A call predictor.isValidAddress(address).
Validate(address) ==
  LET v == isValidAddress(addressCache, address)
  IN /\ addressCache' = v.cache
     /\ call' = [op |-> "isValidAddress", address |-> address, ret |-> v.ret]
     /\ UNCHANGED <<kernelVars, benchVars>>

\* A call predictor.PredictDeterministicAddress(implementation, deployer, salt).
Predict(implementation, deployer, salt) ==
  \E p \in {PredictDeterministicAddress(addressCache, implementation, deployer, salt)} :
     /\ addressCache' = p.cache
     /\ call' = [op |-> "PredictDeterministicAddress", implementation |-> implementation,
                 deployer |-> deployer, salt |-> salt,
                 address |-> p.address, err |-> p.err, derivation |-> p.derivation]
     /\ UNCHANGED <<kernelVars, benchVars>>

ValidateSome == \E a \in AddressChoices : Validate(a)
PredictSome == \E t \in PredictInputs : Predict(t[1], t[2], t[3])

Next == ValidateSome \/ PredictSome

Spec == Init /\ [][Next]_vars

(***************************************************************************)
(* isValidAddress on a wide set of strings: every offset of an address     *)
(* overwritten with each byte at the edge of a character class, and the    *)
(* lengths around 42.  After the first call the same string or one of      *)
(* RepeatChoices is validated again, so the cached answers are read.       *)
(***************************************************************************)
BoundaryBytes ==
  { 0, Ch0 - 1, Ch0, Ch9, Ch9 + 1, ChUpperA - 1, ChUpperA, ChUpperF, ChUpperF + 1,
    ChUpperX, ChLowerA - 1, ChLowerA, ChLowerF, ChLowerG, ChLowerX, 255 }
ValidateInputs ==
  {WithByte(a, pos, ch) : a \in {Implementation, WithUpperPrefix(Deployer)},
                          pos \in 0..41, ch \in BoundaryBytes}
  \cup {SliceTo(Implementation, n) : n \in {0, 1, 2, 40, 41}}
  \cup {Implementation \o <<Ch0>>, SliceFrom(Implementation, 2),
        SliceFrom(Implementation, 2) \o <<Ch0, Ch0>>}
RepeatChoices == {Implementation, WithByte(Implementation, 41, ChLowerG)}

ValidateFirst ==
  /\ call.op = "none"
  /\ \E a \in ValidateInputs : Validate(a)
ValidateRepeat ==
  /\ call.op = "isValidAddress"
  /\ \E a \in {call.address} \cup RepeatChoices : Validate(a)

NextValidate == ValidateFirst \/ ValidateRepeat

SpecValidate == Init /\ [][NextValidate]_vars

(***************************************************************************)
(* The earlier predictor of unnamed/part_001 under the same calls          *)
(***************************************************************************)
Validate001(address) ==
  LET v == isValidAddress001(addressCache, address)
  IN /\ addressCache' = v.cache
     /\ call' = [op |-> "isValidAddress", address |-> address, ret |-> v.ret]
     /\ UNCHANGED <<kernelVars, benchVars>>

Predict001(implementation, deployer, salt) ==
  \E p \in {PredictDeterministicAddress001(addressCache, implementation, deployer, salt)} :
     /\ addressCache' = p.cache
     /\ call' = [op |-> "PredictDeterministicAddress", implementation |-> implementation,
                 deployer |-> deployer, salt |-> salt,
                 address |-> p.address, err |-> p.err, derivation |-> p.derivation]
     /\ UNCHANGED <<kernelVars, benchVars>>

ValidateSome001 == \E a \in AddressChoices : Validate001(a)
PredictSome001 == \E t \in PredictInputs001 : Predict001(t[1], t[2], t[3])

Next001 == ValidateSome001 \/ PredictSome001

Spec001 == Init /\ [][Next001]_vars

(***************************************************************************)
(* stringToHex as a function of its two arguments                          *)
(***************************************************************************)
MaxStringLen == 3
MaxSize == 3
StringBytes == {0, 10, ChLowerA, 255}

RECURSIVE StringsUpTo(_)
StringsUpTo(n) ==
  IF n = 0 THEN {<<>>}
  ELSE LET shorter == StringsUpTo(n - 1)
       IN shorter \cup {Append(s, b) : s \in shorter, b \in StringBytes}

StringToHexInputs ==
  (StringsUpTo(MaxStringLen) \X (0..MaxSize)) \cup (SaltsByLength \X {32})

InitStringToHex ==
  /\ addressCache = EmptyCache
  /\ KernelIdle
  /\ BenchIdle
  /\ \E t \in StringToHexInputs : call = [op |-> "input", s |-> t[1], size |-> t[2]]

ApplyStringToHex ==
  /\ call.op = "input"
  /\ call' = [op |-> "stringToHex", s |-> call.s, size |-> call.size,
              ret |-> stringToHex(call.s, call.size)]
  /\ UNCHANGED <<addressCache, kernelVars, benchVars>>

SpecStringToHex == InitStringToHex /\ [][ApplyStringToHex]_vars

(***************************************************************************)
(* One launch of compute_create2_batch: every thread of the grid runs its  *)
(* prologue, then its loop, one pass at a time, interleaved with the       *)
(* other threads.                                                          *)
(***************************************************************************)
NoResult == [address |-> <<>>, salt_index |-> -1]

InitKernel ==
  /\ addressCache = EmptyCache
  /\ call = NoCall
  /\ BenchIdle
  /\ results = [idx \in 0..(BatchSize - 1) |-> NoResult]
  /\ threads = [gid \in 0..(GridSize - 1) |-> [pc |-> "start", idx |-> 0, end_idx |-> 0]]
  /\ iteration = NoIteration

\* Thread coarsening and the early return; the loop is entered at start_idx.
ThreadStart(gid) ==
  LET start_idx == gid * KernelParams.addresses_per_thread
      end_idx == Min(start_idx + KernelParams.addresses_per_thread, KernelParams.batch_size)
  IN /\ threads[gid].pc = "start"
     /\ threads' = [threads EXCEPT ![gid] =
                      IF start_idx >= KernelParams.batch_size \/ ~(start_idx < end_idx)
                        THEN [pc |-> "done", idx |-> start_idx, end_idx |-> end_idx]
                        ELSE [pc |-> "loop", idx |-> start_idx, end_idx |-> end_idx]]
     /\ UNCHANGED <<addressCache, call, results, iteration, benchVars>>

\* One pass of the loop: the address for index idx is stored and idx advances.
ThreadIterate(gid) ==
  /\ threads[gid].pc = "loop"
  /\ \E t \in {threads[gid]} :
       \E pass \in {KernelIterationAt(t.idx)} :
          /\ results' = [results EXCEPT ![t.idx] = pass.result]
          /\ iteration' = pass
          /\ threads' = [threads EXCEPT ![gid] =
                           [pc |-> IF t.idx + 1 < t.end_idx THEN "loop" ELSE "done",
                            idx |-> t.idx + 1, end_idx |-> t.end_idx]]
  /\ UNCHANGED <<addressCache, call, benchVars>>

StartSome == \E gid \in 0..(GridSize - 1) : ThreadStart(gid)
IterateSome == \E gid \in 0..(GridSize - 1) : ThreadIterate(gid)

NextKernel == StartSome \/ IterateSome

SpecKernel == InitKernel /\ [][NextKernel]_vars

(***************************************************************************)
(* keccak256_thread step by step: a pass of the absorption loop, the       *)
(* padding, the final permutation, the squeeze.  A step record holds the   *)
(* position, offset, the state array, the number of keccak_f calls made    *)
(* and the output buffer.                                                  *)
(***************************************************************************)
\* Inputs of up to MaxBlocks full blocks and one byte more.
MaxBlocks == 2

KeccakLengths ==
  {0, 1, 40, 55, 85}
  \cup {n \in {k * rate + d : k \in 1..MaxBlocks, d \in {-2, -1, 0, 1}} : n >= 0}
KeccakFills == {1, 255}
KeccakInputOf(n, fill) == [i \in 1..n |-> (fill * i) % 256] \o <<>>
KeccakInputs == {KeccakInputOf(n, fill) : n \in KeccakLengths, fill \in KeccakFills}

KeccakStart ==
  [pc |-> "absorb", offset |-> 0, state |-> ZeroState, perms |-> 0, output |-> <<>>]

\* The loop pass at st.offset, with block_size bytes of the input XORed in.
KeccakAbsorbPass(st, xored, block_size) ==
  IF block_size = rate
    THEN [st EXCEPT !.state = keccak_f(xored), !.perms = @ + 1, !.offset = @ + rate]
    ELSE [st EXCEPT !.state = xored, !.pc = "pad"]

\* Variant: SHA-3 domain separation, state_bytes[padding_offset] ^= 0x06.
KeccakPadSha3(st, input_len) ==
  [st EXCEPT !.state = XorStateByte(XorStateByte(st.state, input_len % rate, 6), rate - 1, 128),
             !.pc = "permute"]

\* Variant: the last byte of the block is set only when the first padding
\* byte is not there already.
KeccakPadSkipsSharedByte(st, input_len) ==
  [st EXCEPT !.state = IF input_len % rate = rate - 1
                         THEN XorStateByte(st.state, input_len % rate, 1)
                         ELSE Pad(st.state, input_len),
             !.pc = "permute"]

KeccakPad(st, input_len) == [st EXCEPT !.state = Pad(st.state, input_len), !.pc = "permute"]

\* The step keccak256_thread(input, input_len, output) takes from st.
KeccakStepNext(input, input_len, st) ==
  IF st.pc = "absorb" /\ st.offset < input_len
    THEN KeccakAbsorbPass(st, XorBlock(st.state, input, st.offset,
                                        Min(rate, input_len - st.offset)),
                          Min(rate, input_len - st.offset))
  ELSE IF st.pc \in {"absorb", "pad"}
    THEN KeccakPad(st, input_len)
  ELSE IF st.pc = "permute"
    THEN [st EXCEPT !.state = keccak_f(st.state), !.perms = @ + 1, !.pc = "squeeze"]
  ELSE [st EXCEPT !.output = Squeeze(st.state, st.perms).output, !.pc = "done"]

\* The steps of one call, from st on, each computed once.
RECURSIVE KeccakStepsFrom(_, _, _)
KeccakStepsFrom(input, input_len, st) ==
  IF st.pc = "done" THEN <<st>>
  ELSE <<st>> \o (CHOOSE rest \in {KeccakStepsFrom(input, input_len, nx) :
                                      nx \in {KeccakStepNext(input, input_len, st)}} : TRUE)
KeccakTraces ==
  {[key |-> input, steps |-> KeccakStepsFrom(input, Len(input), KeccakStart)] :
     input \in KeccakInputs}
KeccakTraceOf(input) == (CHOOSE e \in KeccakTraces : e.key = input).steps

InitKeccak ==
  /\ addressCache = EmptyCache
  /\ KernelIdle
  /\ BenchIdle
  /\ \E input \in KeccakInputs :
       call = [op |-> "keccak256_thread", input |-> input, input_len |-> Len(input),
               k |-> 1, step |-> KeccakStart]

\* keccak256_thread advances by one step.
KeccakStep ==
  /\ call.op = "keccak256_thread"
  /\ call.step.pc # "done"
  /\ call' = [call EXCEPT !.k = @ + 1, !.step = KeccakTraceOf(call.input)[call.k + 1]]
  /\ UNCHANGED <<addressCache, kernelVars, benchVars>>

SpecKeccak == InitKeccak /\ [][KeccakStep]_vars

(***************************************************************************)
(* bun/src/main.ts: base58_encode of the Tron kernel                       *)
(***************************************************************************)
BASE58_ALPHABET == Bytes("123456789ABCDEFGHJKLMNPQRSTUVWXYZabcdefghijkmnopqrstuvwxyz")

\* The inner for loop: temp is divided by 58, the quotient bytes are written
\* over the beginning of temp once the first non-zero one has appeared.
RECURSIVE Base58Divide(_, _, _, _)
Base58Divide(temp, i, remainder, quotients) ==
  IF ~(i < Len(temp)) THEN [temp |-> quotients, remainder |-> remainder]
  ELSE Base58Divide(temp, i + 1, (remainder * 256 + temp[i + 1]) % 58,
                    IF (remainder * 256 + temp[i + 1]) \div 58 > 0 \/ Len(quotients) > 0
                      THEN Append(quotients, ((remainder * 256 + temp[i + 1]) \div 58) % 256)
                      ELSE quotients)

\* One pass of the while loop, on the outcome of its division.
Base58Emit(divided, result) ==
  [temp |-> divided.temp, result |-> Append(result, BASE58_ALPHABET[divided.remainder + 1])]

\* while (temp_len > 0): result holds the digits, least significant first.
RECURSIVE Base58Digits(_, _)
Base58Digits(temp, result) ==
  IF ~(Len(temp) > 0) THEN result
  ELSE CHOOSE out \in {Base58Digits(e.temp, e.result) :
                         e \in {Base58Emit(Base58Divide(temp, 0, 0, <<>>), result)}} : TRUE

\* for (i = 0; i < input_len && input[i] == 0; i++): the number of passes.
Base58LeadingZeros(input, input_len) ==
  Cardinality({i \in 1..input_len : \A j \in 1..i : input[j] = 0})

\* output[i] = result[output_len - 1 - i]
Base58Reverse(result) == [i \in 1..Len(result) |-> result[Len(result) + 1 - i]] \o <<>>

\* base58_encode: the output_len characters written to output.
base58_encode(input, input_len) ==
  Base58Reverse(Base58Digits(SubSeq(input, 1, input_len), <<>>)
                \o ([i \in 1..Base58LeadingZeros(input, input_len) |-> BASE58_ALPHABET[1]]
                    \o <<>>))

\* Inputs of up to MaxBase58Len bytes.
MaxBase58Len == 3
Base58Bytes == {0, 1, 57, 58, 255}
RECURSIVE Base58InputsUpTo(_)
Base58InputsUpTo(n) ==
  IF n = 0 THEN {<<>>}
  ELSE {<<>>} \cup {<<b>> \o t : b \in Base58Bytes, t \in Base58InputsUpTo(n - 1)}

InitBase58 ==
  /\ addressCache = EmptyCache
  /\ KernelIdle
  /\ BenchIdle
  /\ \E input \in Base58InputsUpTo(MaxBase58Len) :
       call = [op |-> "input", input |-> input, input_len |-> Len(input)]

ApplyBase58 ==
  /\ call.op = "input"
  /\ call' = [op |-> "base58_encode", input |-> call.input, input_len |-> call.input_len,
              ret |-> base58_encode(call.input, call.input_len)]
  /\ UNCHANGED <<addressCache, kernelVars, benchVars>>

SpecBase58 == InitBase58 /\ [][ApplyBase58]_vars

(***************************************************************************)
(* runBenchmark of go/main.go (random salts, the predictor of create2.go)  *)
(* and of unnamed/part_000 (salts Salt-i, the predictor of part_001).      *)
(* bench.reads logs every rand.Read, bench.calls every call of the         *)
(* predictor, in order.                                                    *)
(***************************************************************************)
ErrEntropy == [msg |-> "rand.Read failed", arg |-> <<>>]
ErrBenchSalt(i, err) ==
  [msg |-> "random salt generation failed (iteration %d): %v", arg |-> <<i, err>>]
ErrBenchPredict(i, err) ==
  [msg |-> "address prediction failed (iteration %d): %v", arg |-> <<i, err>>]

\* What rand.Read(bytes) may do: fill the slice, or fail and leave it as made.
RandReadOutcomes ==
  {[bytes |-> b, err |-> NoError] : b \in RandomBytesChoices}
  \cup {[bytes |-> ZeroBytes16, err |-> ErrEntropy]}

\* The *BenchmarkResult a run returns: nil, or a pointer to a result.
NilResult == [kind |-> "nil"]
NoResultYet == [kind |-> "none"]

\* return nil, err  and  return &BenchmarkResult{...}, nil
BenchReturn(b, err) ==
  [b EXCEPT !.pc = "returned", !.result = NilResult, !.err = err]
BenchResult(b) ==
  [b EXCEPT !.pc = "returned", !.result = [kind |-> "BenchmarkResult", TotalOperations |-> TotalIterations],
            !.err = NoError]

InitBench ==
  /\ addressCache = EmptyCache
  /\ call = NoCall
  /\ KernelIdle
  /\ workers = <<>>
  /\ \E c \in BenchConfigs, v \in {"main.go", "part_000"} :
       bench = [version |-> v, implementation |-> c[1], deployer |-> c[2], pc |-> "loop",
                i |-> 0, reads |-> <<>>, calls |-> <<>>, lastCount |-> 0, reports |-> <<>>,
                result |-> NoResultYet, err |-> NoError]

\* Variant: the last index is reported only when it is a multiple of
\* ReportInterval.
BenchReportOnlyMultiples(b) ==
  IF b.i % ReportInterval = 0
    THEN [b EXCEPT !.reports = Append(@, [i |-> b.i, done |-> b.i + 1,
                                          recent |-> IF b.i > 0 THEN <<b.i - b.lastCount>>
                                                     ELSE <<>>]),
                   !.lastCount = b.i]
    ELSE b

\* Lines 65..85: the progress line (i + 1 of TotalIterations), with i - lastCount
\* as the operations of the recent interval when i > 0, and lastCount = i.
BenchReport(b) ==
  IF b.i % ReportInterval = 0 \/ b.i = TotalIterations - 1
    THEN [b EXCEPT !.reports = Append(@, [i |-> b.i, done |-> b.i + 1,
                                          recent |-> IF b.i > 0 THEN <<b.i - b.lastCount>>
                                                     ELSE <<>>]),
                   !.lastCount = b.i]
    ELSE b

\* i++
BenchNextIndex(b) == [b EXCEPT !.i = @ + 1]

\* Variant: a failed prediction is skipped and the loop goes on.
BenchAfterPredictSkip(b, salt, err) ==
  BenchNextIndex(BenchReport([b EXCEPT !.calls = Append(@, [i |-> b.i, salt |-> salt,
                                                            err |-> err])]))

\* Lines 60..86, once the predictor has returned err: the error return, or
\* the report and the loop increment.
BenchAfterPredict(b, salt, err) ==
  IF err # NoError
    THEN BenchReturn([b EXCEPT !.calls = Append(@, [i |-> b.i, salt |-> salt, err |-> err])],
                     ErrBenchPredict(b.i, err))
    ELSE BenchNextIndex(BenchReport([b EXCEPT !.calls = Append(@, [i |-> b.i, salt |-> salt,
                                                                   err |-> err])]))

\* Variant: when rand.Read fails the zero bytes of the slice are used as salt.
BenchAfterReadSubstitute(b, read) ==
  [proceed |-> TRUE, salt |-> HexEncode(read.bytes),
   bench |-> [b EXCEPT !.reads = Append(@, [i |-> b.i, bytes |-> read.bytes, err |-> read.err])]]

\* Lines 53..58: the error of rand.Read is returned, else the salt is the hex
\* of the 16 bytes.
BenchAfterRead(b, read) ==
  IF read.err # NoError
    THEN [proceed |-> FALSE, salt |-> <<>>,
          bench |-> BenchReturn([b EXCEPT !.reads = Append(@, [i |-> b.i, bytes |-> read.bytes,
                                                               err |-> read.err])],
                                ErrBenchSalt(b.i, read.err))]
    ELSE [proceed |-> TRUE, salt |-> HexEncode(read.bytes),
          bench |-> [b EXCEPT !.reads = Append(@, [i |-> b.i, bytes |-> read.bytes,
                                                   err |-> read.err])]]

\* One pass of the loop of go/main.go.
BenchIterate(read) ==
  /\ bench.version = "main.go"
  /\ bench.pc = "loop"
  /\ bench.i < TotalIterations
  /\ \E a \in {BenchAfterRead(bench, read)} :
       IF ~a.proceed
         THEN /\ bench' = a.bench
              /\ UNCHANGED addressCache
         ELSE \E p \in {PredictDeterministicAddress(addressCache, bench.implementation,
                                                    bench.deployer, a.salt)} :
                /\ addressCache' = p.cache
                /\ bench' = BenchAfterPredict(a.bench, a.salt, p.err)
  /\ UNCHANGED <<call, kernelVars, workers>>

\* One pass of the loop of unnamed/part_000.
BenchIterate000 ==
  /\ bench.version = "part_000"
  /\ bench.pc = "loop"
  /\ bench.i < TotalIterations
  /\ \E p \in {PredictDeterministicAddress001(addressCache, bench.implementation,
                                                bench.deployer, SaltOfIteration(bench.i))} :
       /\ addressCache' = p.cache
       /\ bench' = BenchAfterPredict(bench, SaltOfIteration(bench.i), p.err)
  /\ UNCHANGED <<call, kernelVars, workers>>

\* The loop has ended: the result is returned.
BenchFinish ==
  /\ bench.pc = "loop"
  /\ ~(bench.i < TotalIterations)
  /\ bench' = BenchResult(bench)
  /\ UNCHANGED <<addressCache, call, kernelVars, workers>>

BenchIterateSome == \E read \in RandReadOutcomes : BenchIterate(read)

NextBench == BenchIterateSome \/ BenchIterate000 \/ BenchFinish

SpecBench == InitBench /\ [][NextBench]_vars

\* The loop is sequential code: a run that can take a step takes it.
SpecBenchFair == SpecBench /\ WF_vars(NextBench)

(***************************************************************************)
(* Test mode: testSinglePrediction of go/main.go, of unnamed/part_000, and *)
(* main of unnamed/part_004.  bench holds the run: the constants of the    *)
(* build, what the predictor returned, and the lines printed after the     *)
(* test parameters.  The predictor of part_004 is not among the sources:   *)
(* what it returns or throws is an input.                                  *)
(***************************************************************************)
TestConfigs == ImplementationChoices \X DeployerChoices

LineError(err) == [line |-> "prediction failed: err", arg |-> err]
LineMismatch(result) == [line |-> "cross: prediction failed: result", arg |-> result]
LineSuccess(result) == [line |-> "check: result", arg |-> result]
LinePlain(result) == [line |-> "result", arg |-> result]

\* What predictDeterministicAddress of ./create2 may do in part_004.
BunOutcomes ==
  { [result |-> ExpectedAddress, thrown |-> FALSE],
    [result |-> ToLower(ExpectedAddress), thrown |-> FALSE],
    [result |-> <<>>, thrown |-> TRUE] }

InitTest ==
  /\ addressCache = EmptyCache
  /\ call = NoCall
  /\ KernelIdle
  /\ workers = <<>>
  /\ \E t \in (TestConfigs \X {"main.go", "part_000"})
               \cup {<<<<Implementation, Deployer>>, "part_004">>} :
     \E c \in {t[1]}, v \in {t[2]} :
       bench = [pc |-> "test", version |-> v, implementation |-> c[1], deployer |-> c[2],
                result |-> <<>>, err |-> NoError, output |-> <<>>]

\* main.go:124-128: the call of the predictor.
TestPredict ==
  /\ bench.pc = "test"
  /\ bench.version = "main.go"
  /\ \E p \in {PredictDeterministicAddress(addressCache, bench.implementation,
                                             bench.deployer, TestSalt)} :
       /\ addressCache' = p.cache
       /\ bench' = [bench EXCEPT !.pc = "predicted", !.result = p.address, !.err = p.err]
  /\ UNCHANGED <<call, kernelVars, workers>>

\* part_000:118-122: the call of the predictor of part_001.
TestPredict000 ==
  /\ bench.pc = "test"
  /\ bench.version = "part_000"
  /\ \E p \in {PredictDeterministicAddress001(addressCache, bench.implementation,
                                                bench.deployer, TestSalt)} :
       /\ addressCache' = p.cache
       /\ bench' = [bench EXCEPT !.pc = "predicted", !.result = p.address, !.err = p.err]
  /\ UNCHANGED <<call, kernelVars, workers>>

\* part_004:14-18: the call, which returns a string or throws; an exception
\* ends main with nothing more printed.
TestPredictBun ==
  /\ bench.pc = "test"
  /\ bench.version = "part_004"
  /\ \E o \in BunOutcomes :
       bench' = [bench EXCEPT !.pc = IF o.thrown THEN "exited" ELSE "errChecked",
                              !.result = o.result,
                              !.err = IF o.thrown THEN [msg |-> "thrown", arg |-> <<>>]
                                      ELSE NoError]
  /\ UNCHANGED <<addressCache, call, kernelVars, workers>>

\* main.go:130-132: the error is printed and the function goes on.
TestAfterErr(b) ==
  IF b.err # NoError
    THEN [b EXCEPT !.pc = "errChecked", !.output = Append(@, LineError(b.err))]
    ELSE [b EXCEPT !.pc = "errChecked"]

TestCheckErr ==
  /\ bench.pc = "predicted"
  /\ bench.version = "main.go"
  /\ bench' = TestAfterErr(bench)
  /\ UNCHANGED <<addressCache, call, kernelVars, workers>>

\* part_000:124-128: log.Fatalf on an error, else the result is printed.
TestCheckErr000 ==
  /\ bench.pc = "predicted"
  /\ bench.version = "part_000"
  /\ bench' = IF bench.err # NoError
                THEN [bench EXCEPT !.pc = "exited", !.output = Append(@, LineError(bench.err))]
                ELSE [bench EXCEPT !.pc = "exited", !.output = Append(@, LinePlain(bench.result))]
  /\ UNCHANGED <<addressCache, call, kernelVars, workers>>

\* main.go:134-136 and part_004:20-22: a result other than the expected
\* address is printed with the cross, and the function goes on.
TestAfterResult(b) ==
  IF b.result # ExpectedAddress
    THEN [b EXCEPT !.pc = "resultChecked", !.output = Append(@, LineMismatch(b.result))]
    ELSE [b EXCEPT !.pc = "resultChecked"]

TestCheckResult ==
  /\ bench.pc = "errChecked"
  /\ bench' = TestAfterResult(bench)
  /\ UNCHANGED <<addressCache, call, kernelVars, workers>>

\* main.go:138 and part_004:24: the line with the check mark.
TestPrintResult ==
  /\ bench.pc = "resultChecked"
  /\ bench' = [bench EXCEPT !.pc = "exited", !.output = Append(@, LineSuccess(bench.result))]
  /\ UNCHANGED <<addressCache, call, kernelVars, workers>>

NextTest ==
  \/ TestPredict
  \/ TestPredict000
  \/ TestPredictBun
  \/ TestCheckErr
  \/ TestCheckErr000
  \/ TestCheckResult
  \/ TestPrintResult

SpecTest == InitTest /\ [][NextTest]_vars

(***************************************************************************)
(* One instance called with several spellings of the same addresses, and   *)
(* with the addresses it returned: a returned address is validated, or     *)
(* passed to the next call as implementation or as deployer.               *)
(***************************************************************************)
PredictSpelled == \E t \in SpellingInputs : Predict(t[1], t[2], t[3])

ValidateReturned ==
  /\ call.op = "PredictDeterministicAddress"
  /\ call.err = NoError
  /\ Validate(call.address)

PredictReturned ==
  /\ call.op = "PredictDeterministicAddress"
  /\ call.err = NoError
  /\ <<call.implementation, call.deployer, call.salt>> \in SpellingInputs
  /\ \/ Predict(call.address, Deployer, TestSalt)
     \/ Predict(Implementation, call.address, TestSalt)

NextSpelling == PredictSpelled \/ ValidateReturned \/ PredictReturned

SpecSpelling == Init /\ [][NextSpelling]_vars

(***************************************************************************)
(* Goroutines that call into one Create2 instance.  Each call of           *)
(* isValidAddress is cut at its accesses to addressCache: the length and   *)
(* prefix test is local, addressCache.Load is one atomic step, the loop    *)
(* over the characters is local, addressCache.Store is one atomic step.    *)
(* PredictDeterministicAddress makes the two calls of isValidAddress one   *)
(* after the other and touches nothing else that is shared.                *)
(***************************************************************************)
NumWorkers == 2

WorkerAddresses ==
  { Implementation, WithByte(Implementation, 41, ChLowerG), SliceTo(Implementation, 41) }
WorkerInputs ==
  { <<Implementation, Deployer, TestSalt>>,
    <<Implementation, WithByte(Deployer, 41, ChLowerG), TestSalt>> }

IdleWorker ==
  [pc |-> "idle", op |-> "none", stage |-> "none", address |-> <<>>, found |-> FALSE,
   implementation |-> <<>>, deployer |-> <<>>, salt |-> <<>>,
   ret |-> FALSE, result |-> <<>>, err |-> NoError]

\* The test of line 34, which returns false before the cache is read.
RefusedEarly(address) ==
  Len(address) # 42 \/ address[1] # Ch0 \/ (address[2] # ChLowerX /\ address[2] # ChUpperX)

\* The loop of lines 42..48: the value that will be stored and returned.
DigitsValid(address) == ~(\E i \in 2..41 : ~IsHexDigit(address[i + 1]))

\* The return of a call.
WorkerDone(wk, ret, result, err) ==
  [wk EXCEPT !.pc = "done", !.ret = ret, !.result = result, !.err = err]

\* PredictDeterministicAddress after both addresses were found valid.
WorkerPredictFinish(wk, derivation) ==
  IF Len(wk.salt) > 32 THEN WorkerDone(wk, FALSE, <<>>, ErrSalt)
  ELSE WorkerDone(wk, TRUE, derivation.address, NoError)
\* ... after isValidAddress(deployer) returned valid.
WorkerAfterDeployer(wk, valid) ==
  IF ~valid THEN WorkerDone(wk, FALSE, <<>>, ErrDeployer(wk.deployer))
  ELSE WorkerPredictFinish(wk, Derived(wk.implementation, wk.deployer, wk.salt))
\* ... entering isValidAddress(deployer).
WorkerBeginDeployer(wk) ==
  IF RefusedEarly(wk.deployer) THEN WorkerAfterDeployer(wk, FALSE)
  ELSE [wk EXCEPT !.pc = "load", !.stage = "deployer", !.address = wk.deployer]
\* ... after isValidAddress(implementation) returned valid.
WorkerAfterImplementation(wk, valid) ==
  IF ~valid THEN WorkerDone(wk, FALSE, <<>>, ErrImplementation(wk.implementation))
  ELSE WorkerBeginDeployer(wk)
\* ... entering isValidAddress(implementation).
WorkerBeginImplementation(wk) ==
  IF RefusedEarly(wk.implementation) THEN WorkerAfterImplementation(wk, FALSE)
  ELSE [wk EXCEPT !.pc = "load", !.stage = "implementation", !.address = wk.implementation]

\* isValidAddress returns valid to its caller: the goroutine itself, or
\* PredictDeterministicAddress at one of its two calls.
WorkerAfterValidation(wk, valid) ==
  IF wk.stage = "implementation" THEN WorkerAfterImplementation(wk, valid)
  ELSE IF wk.stage = "deployer" THEN WorkerAfterDeployer(wk, valid)
  ELSE WorkerDone(wk, valid, <<>>, NoError)

\* Variant: a miss stores false under the key before the characters are
\* looked at, and the final Store replaces it.
WorkerAfterLoadMarksPending(cache, wk) ==
  IF Loaded(cache, wk.address)
    THEN [cache |-> cache, worker |-> WorkerAfterValidation(wk, cache[wk.address])]
    ELSE [cache |-> Store(cache, wk.address, FALSE),
          worker |-> [wk EXCEPT !.pc = "store", !.found = DigitsValid(wk.address)]]

\* Lines 38..48: the Load, and on a miss the loop, up to the Store.
WorkerAfterLoad(cache, wk) ==
  IF Loaded(cache, wk.address)
    THEN [cache |-> cache, worker |-> WorkerAfterValidation(wk, cache[wk.address])]
    ELSE [cache |-> cache,
          worker |-> [wk EXCEPT !.pc = "store", !.found = DigitsValid(wk.address)]]

\* Lines 44..45 and 50..51: the Store and the return.
WorkerAfterStore(cache, wk) ==
  [cache |-> Store(cache, wk.address, wk.found),
   worker |-> WorkerAfterValidation(wk, wk.found)]

InitWorkers ==
  /\ addressCache = EmptyCache
  /\ call = NoCall
  /\ KernelIdle
  /\ bench = NoBench
  /\ workers = [w \in 1..NumWorkers |-> IdleWorker]

\* Goroutine w calls isValidAddress(address).
WorkerCallValidate(w, address) ==
  /\ workers[w].pc \in {"idle", "done"}
  /\ workers' = [workers EXCEPT ![w] =
                   IF RefusedEarly(address)
                     THEN WorkerDone([IdleWorker EXCEPT !.op = "isValidAddress",
                                                        !.address = address],
                                     FALSE, <<>>, NoError)
                     ELSE [IdleWorker EXCEPT !.op = "isValidAddress", !.pc = "load",
                                             !.stage = "address", !.address = address]]
  /\ UNCHANGED <<addressCache, call, kernelVars, bench>>

\* Goroutine w calls PredictDeterministicAddress(implementation, deployer, salt).
WorkerCallPredict(w, implementation, deployer, salt) ==
  /\ workers[w].pc \in {"idle", "done"}
  /\ workers' = [workers EXCEPT ![w] =
                   WorkerBeginImplementation(
                     [IdleWorker EXCEPT !.op = "PredictDeterministicAddress",
                                        !.implementation = implementation,
                                        !.deployer = deployer, !.salt = salt])]
  /\ UNCHANGED <<addressCache, call, kernelVars, bench>>

WorkerLoad(w) ==
  /\ workers[w].pc = "load"
  /\ \E p \in {WorkerAfterLoad(addressCache, workers[w])} :
       /\ addressCache' = p.cache
       /\ workers' = [workers EXCEPT ![w] = p.worker]
  /\ UNCHANGED <<call, kernelVars, bench>>

WorkerStore(w) ==
  /\ workers[w].pc = "store"
  /\ \E p \in {WorkerAfterStore(addressCache, workers[w])} :
       /\ addressCache' = p.cache
       /\ workers' = [workers EXCEPT ![w] = p.worker]
  /\ UNCHANGED <<call, kernelVars, bench>>

WorkerCallValidateSome ==
  \E w \in 1..NumWorkers : \E a \in WorkerAddresses : WorkerCallValidate(w, a)
WorkerCallPredictSome ==
  \E w \in 1..NumWorkers : \E t \in WorkerInputs : WorkerCallPredict(w, t[1], t[2], t[3])
WorkerLoadSome == \E w \in 1..NumWorkers : WorkerLoad(w)
WorkerStoreSome == \E w \in 1..NumWorkers : WorkerStore(w)

NextWorkers ==
  WorkerCallValidateSome \/ WorkerCallPredictSome \/ WorkerLoadSome \/ WorkerStoreSome

SpecWorkers == InitWorkers /\ [][NextWorkers]_vars

(***************************************************************************)
(* Properties                                                              *)
(***************************************************************************)
IsPredictCall == call.op = "PredictDeterministicAddress"
IsValidateCall == call.op = "isValidAddress"

HexDigitBytes == {Bytes("0123456789abcdefABCDEF")[i] : i \in 1..22}

\* s matches ^0[xX][0-9a-fA-F]{40}$.
MatchesAddressPattern(s) ==
  /\ Len(s) = 42
  /\ s[1] = Ch0
  /\ s[2] \in {ChLowerX, ChUpperX}
  /\ \A i \in 3..42 : s[i] \in HexDigitBytes

WithLowerPrefix(a) == [a EXCEPT ![2] = ChLowerX]

\* The (address, error) a call with input t returns on an instance whose cache
\* is cache.
Outcome(cache, t) ==
  LET p == PredictDeterministicAddress(cache, t[1], t[2], t[3])
  IN <<p.address, p.err>>
Outcome001(cache, t) ==
  LET p == PredictDeterministicAddress001(cache, t[1], t[2], t[3])
  IN <<p.address, p.err>>

IsKnownVectorCall ==
  /\ IsPredictCall
  /\ call.implementation = Implementation
  /\ call.deployer = Deployer
  /\ call.salt = TestSalt

\* C1: PredictDeterministicAddress("0xa84c57e9966df7df79bff42f35c68aae71796f64",
\* "0xfe15afcb5b9831b8af5fd984678250e95de8e312", "test-salt-test") returns
\* exactly "0x22FBFB2264B9Cd1ADe8ce5013012c817878D783C" with no error.
C1_KnownVector ==
  IsKnownVectorCall => (call.address = ExpectedAddress /\ call.err = NoError)
C1_Witness ==
  IsKnownVectorCall /\ call.address = ExpectedAddress

\* C2: whatever the address cache holds (empty, or filled by any earlier
\* sequence of calls), PredictDeterministicAddress returns for every input the
\* (address, error) it returns on a fresh instance, and so did the last call:
\* two invocations with the same input return the same outcome.
C2_CacheNeverChangesResult ==
  /\ \A t \in PredictInputs : Outcome(addressCache, t) = Outcome(EmptyCache, t)
  /\ IsPredictCall =>
       <<call.address, call.err>>
         = Outcome(EmptyCache, <<call.implementation, call.deployer, call.salt>>)
C2_Witness ==
  /\ IsPredictCall
  /\ call.err = NoError
  /\ \E a \in DOMAIN addressCache : a \notin {call.implementation, call.deployer}
  /\ \E a \in DOMAIN addressCache : ~addressCache[a]

\* C3: isValidAddress(s) returns true if and only if s matches
\* ^0[xX][0-9a-fA-F]{40}$; every other string (length 41 or 43, a non-hex
\* character at any of the offsets 2..41, no 0x prefix, the empty string) gets
\* false, on a first call and on a call answered from the cache.
C3_ValidIffPattern ==
  IsValidateCall => (call.ret <=> MatchesAddressPattern(call.address))
C3_Witness ==
  /\ IsValidateCall
  /\ call.address = WithByte(Implementation, 41, ChLowerG)
  /\ ~call.ret
  /\ Loaded(addressCache, call.address)

\* C4, as it reads for create2.go: an address written 0X and 40 hex digits is
\* accepted by isValidAddress, and PredictDeterministicAddress returns for it
\* the address it returns for the same string written 0x.
C4_UpperPrefixAccepted ==
  /\ (IsValidateCall /\ MatchesAddressPattern(call.address)) => call.ret
  /\ (/\ IsPredictCall
      /\ MatchesAddressPattern(call.implementation)
      /\ MatchesAddressPattern(call.deployer)
      /\ Len(call.salt) <= 32)
     => /\ call.err = NoError
        /\ call.address = Outcome(EmptyCache, <<WithLowerPrefix(call.implementation),
                                               WithLowerPrefix(call.deployer),
                                               call.salt>>)[1]
\* C4, as it reads for unnamed/part_001: the same statement about the earlier
\* predictor.
C4_UpperPrefixAccepted001 ==
  /\ (IsValidateCall /\ MatchesAddressPattern(call.address)) => call.ret
  /\ (/\ IsPredictCall
      /\ MatchesAddressPattern(call.implementation)
      /\ MatchesAddressPattern(call.deployer)
      /\ Len(call.salt) <= 32)
     => /\ call.err = NoError
        /\ call.address = Outcome001(EmptyCache, <<WithLowerPrefix(call.implementation),
                                                  WithLowerPrefix(call.deployer),
                                                  call.salt>>)[1]
C4_Witness ==
  /\ IsPredictCall
  /\ call.implementation = WithUpperPrefix(Implementation)
  /\ call.deployer = Deployer
  /\ call.salt = TestSalt
  /\ call.err = ErrImplementation(call.implementation)

HasValidAddresses ==
  /\ IsPredictCall
  /\ MatchesAddressPattern(call.implementation)
  /\ MatchesAddressPattern(call.deployer)

\* C5: with valid implementation and deployer, every salt of 0..32 bytes is
\* accepted and every salt of 33 bytes or more is refused with the salt error
\* and the empty address; the empty salt is accepted and puts 32 zero bytes
\* (64 characters 0) at the end of the bytecode, which are the bytes at
\* offsets 21..52 of the second hash input.
C5_SaltBoundary ==
  HasValidAddresses =>
    /\ Len(call.salt) <= 32 => (call.err = NoError /\ Len(call.address) = 42)
    /\ Len(call.salt) >= 33 => (call.err = ErrSalt /\ call.address = <<>>)
    /\ call.salt = <<>> =>
         /\ call.err = NoError
         /\ Len(call.derivation.bytecode) = 216
         /\ \A i \in 153..216 : call.derivation.bytecode[i] = Ch0
         /\ \A i \in 22..53 : call.derivation.secondBytes[i] = 0
C5_Witness ==
  HasValidAddresses /\ call.salt = <<>> /\ call.err = NoError

\* C6: the arguments are checked in the order implementation, deployer, salt
\* and only the first failure is reported: an invalid implementation gives the
\* implementation error whatever the other arguments are, a valid
\* implementation with an invalid deployer gives the deployer error whatever
\* the salt is, the salt error is given only when both addresses are valid;
\* the two address errors differ from each other and from the salt error, and
\* every error comes with the empty address.
C6_FirstFailureReported ==
  IsPredictCall =>
    LET validImplementation == MatchesAddressPattern(call.implementation)
        validDeployer == MatchesAddressPattern(call.deployer)
    IN /\ ~validImplementation => call.err = ErrImplementation(call.implementation)
       /\ (validImplementation /\ ~validDeployer) => call.err = ErrDeployer(call.deployer)
       /\ (validImplementation /\ validDeployer /\ Len(call.salt) > 32) => call.err = ErrSalt
       /\ call.err = ErrSalt => (validImplementation /\ validDeployer)
       /\ call.err # NoError => call.address = <<>>
       /\ ErrImplementation(call.implementation) # ErrDeployer(call.implementation)
       /\ ErrImplementation(call.implementation) # ErrSalt
       /\ ErrDeployer(call.deployer) # ErrSalt
C6_Witness ==
  /\ IsPredictCall
  /\ ~MatchesAddressPattern(call.implementation)
  /\ ~MatchesAddressPattern(call.deployer)
  /\ Len(call.salt) > 32
  /\ call.err = ErrImplementation(call.implementation)
  /\ call.address = <<>>

\* The lowercase hex digit of a nibble.
HexChar(n) == IF n < 10 THEN Ch0 + n ELSE ChLowerA + (n - 10)

\* C7: stringToHex(s, size) returns the empty string when s is longer than
\* size; otherwise 2*size characters whose first 2*len(s) are the lowercase
\* hex digits of the bytes of s in order and whose remaining ones are all 0.
C7_StringToHexPadsRight ==
  call.op = "stringToHex" =>
    IF Len(call.s) > call.size
      THEN call.ret = <<>>
      ELSE /\ Len(call.ret) = 2 * call.size
           /\ \A i \in 1..Len(call.s) :
                /\ call.ret[2 * i - 1] = HexChar(call.s[i] \div 16)
                /\ call.ret[2 * i] = HexChar(call.s[i] % 16)
           /\ \A k \in (2 * Len(call.s) + 1)..(2 * call.size) : call.ret[k] = Ch0
C7_Witness ==
  /\ call.op = "stringToHex"
  /\ Len(call.s) > 0
  /\ Len(call.s) < call.size
  /\ Len(call.ret) = 2 * call.size
  /\ \E i \in 1..Len(call.s) : call.s[i] >= 160

IsIteration == iteration.op = "iteration"

\* What the Go predictor derives for the salt behind the index of the last
\* loop pass of the kernel.
GoDerivation == Derived(Implementation, Deployer, KernelSaltSource(iteration.idx))

\* C8: derivation is two-stage.  The first Keccak256 input is bytecode[0..55),
\* the second is bytecode[55..108) followed by the 32 bytes of the first hash
\* (85 bytes), the address is bytes 12..31 of the second hash; the 108-byte
\* bytecode is never an input of Keccak256; and the Go predictor passes to
\* Keccak256 the two byte sequences the kernel passes.
C8_TwoStageHashing ==
  IsIteration =>
    /\ Len(iteration.bytecode) = 108
    /\ iteration.hashInputs[1] = SubSeq(iteration.bytecode, 1, 55)
    /\ iteration.hashInputs[2] = SubSeq(iteration.bytecode, 56, 108) \o iteration.first_hash
    /\ Len(iteration.hashInputs[2]) = 85
    /\ iteration.address_bytes = SubSeq(iteration.second_hash, 13, 32)
    /\ \A k \in 1..3 : iteration.hashInputs[k] # iteration.bytecode
    /\ FromHex(GoDerivation.bytecode) = iteration.bytecode
    /\ GoDerivation.firstBytes = iteration.hashInputs[1]
    /\ GoDerivation.secondBytes = iteration.hashInputs[2]
    /\ GoDerivation.secondBytes # FromHex(GoDerivation.bytecode)
    /\ GoDerivation.addressBytes = SubSeq(GoDerivation.secondHash, 13, 32)
C8_Witness ==
  /\ IsIteration
  /\ Len(KernelSaltSource(iteration.idx)) = 32
  /\ results[iteration.idx] = iteration.result
  /\ GoDerivation.secondBytes = iteration.second_part

\* Nibble i of the hash h: the high nibble of byte i/2 for even i, the low one
\* for odd i.
NibbleOf(h, i) == IF i % 2 = 0 THEN h[(i \div 2) + 1] \div 16 ELSE h[(i \div 2) + 1] % 16
LowerHexBytes == {Bytes("0123456789abcdef")[i] : i \in 1..16}
LowerLetterBytes == {Bytes("abcdef")[i] : i \in 1..6}

\* C9: in the kernel the checksum hash H is Keccak256 of the 40 lowercase hex
\* characters of the address, and character i of the stored address is the
\* uppercase form of input character i exactly when that character is one of
\* a..f and nibble i of H is >= 8; every other character is unchanged, so the
\* stored address in lower case is the input.
C9_KernelChecksumCasing ==
  IsIteration =>
    /\ Len(iteration.address_hex) = 40
    /\ \A k \in 1..40 : iteration.address_hex[k] \in LowerHexBytes
    /\ iteration.hashInputs[3] = iteration.address_hex
    /\ Len(iteration.result.address) = 40
    /\ \A i \in 0..39 :
         iteration.result.address[i + 1] =
           IF /\ iteration.address_hex[i + 1] \in LowerLetterBytes
              /\ NibbleOf(iteration.address_hash, i) >= 8
             THEN iteration.address_hex[i + 1] - 32
             ELSE iteration.address_hex[i + 1]
    /\ ToLower(iteration.result.address) = iteration.address_hex
C9_Witness ==
  /\ IsIteration
  /\ \E i \in 0..39 : /\ iteration.address_hex[i + 1] \in LowerLetterBytes
                      /\ NibbleOf(iteration.address_hash, i) = 8
                      /\ iteration.result.address[i + 1] = iteration.address_hex[i + 1] - 32
  /\ \E i \in 0..39 : /\ iteration.address_hex[i + 1] \in LowerLetterBytes
                      /\ NibbleOf(iteration.address_hash, i) = 7
                      /\ iteration.result.address[i + 1] = iteration.address_hex[i + 1]

\* The checksum step of the kernel applied to the address a in lower case.
Rechecksum(a) ==
  LET lower == ToLower(SliceFrom(a, 2))
  IN <<Ch0, ChLowerX>> \o ApplyChecksum(lower, keccak256_thread(lower, 40))
RechecksumTable ==
  {[key |-> a, value |-> Rechecksum(a)] : a \in {e.value.address : e \in DerivedTable}}
Rechecksummed(a) == ValueIn({e \in RechecksumTable : e.key = a}, Rechecksum(a))

\* C10: for every address the predictor returns, putting its hex letters in
\* lower case gives back the 20 address bytes, and the checksum step applied
\* to the lowercase digits reproduces the returned mixed-case string exactly.
C10_ChecksumRoundTrip ==
  (IsPredictCall /\ call.err = NoError) =>
    /\ HexToAddress(ToLower(call.address)) = call.derivation.addressBytes
    /\ Rechecksummed(call.address) = call.address
C10_Witness ==
  /\ IsPredictCall
  /\ call.err = NoError
  /\ Rechecksummed(call.address) = call.address
  /\ call.address # ToLower(call.address)
  /\ \E k \in 3..42 : call.address[k] \in LowerLetterBytes

IsBenchRun == bench.pc \in {"loop", "returned"}
BenchReturnedNil == bench.pc = "returned" /\ bench.result = NilResult

\* C11: in runBenchmark the predictor is called for the indices 0, 1, 2, ...
\* in order without a gap; a call that returns an error is the last call ever
\* made (no later index is started, nothing is skipped), and runBenchmark has
\* then returned a nil result and the prediction error carrying the index of
\* that call; a non-nil result is returned only after TotalIterations calls
\* that all succeeded.
C11_FirstErrorAborts ==
  IsBenchRun =>
    /\ \A k \in 1..Len(bench.calls) : bench.calls[k].i = k - 1
    /\ \A k \in 1..(Len(bench.calls) - 1) : bench.calls[k].err = NoError
    /\ \A k \in 1..Len(bench.calls) :
         bench.calls[k].err # NoError =>
           /\ BenchReturnedNil
           /\ bench.err = ErrBenchPredict(k - 1, bench.calls[k].err)
    /\ (bench.pc = "returned" /\ bench.result # NilResult) =>
         /\ bench.err = NoError
         /\ Len(bench.calls) = TotalIterations
C11_Witness ==
  /\ BenchReturnedNil
  /\ Len(bench.calls) = 1
  /\ bench.calls[1].err = ErrImplementation(bench.implementation)
  /\ bench.err = ErrBenchPredict(0, bench.calls[1].err)

\* C12: in runBenchmark of go/main.go a failure of rand.Read at iteration i
\* is the last thing the loop does: a nil result and the salt error carrying
\* i are returned, the predictor has been called for the iterations before i
\* only, and every salt passed to the predictor is the hex of the 16 bytes
\* rand.Read delivered without error in the same iteration.
C12_EntropyFailureAborts ==
  (IsBenchRun /\ bench.version = "main.go") =>
    /\ \A k \in 1..Len(bench.reads) : bench.reads[k].i = k - 1
    /\ \A k \in 1..(Len(bench.reads) - 1) : bench.reads[k].err = NoError
    /\ \A k \in 1..Len(bench.reads) :
         bench.reads[k].err # NoError =>
           /\ BenchReturnedNil
           /\ bench.err = ErrBenchSalt(k - 1, bench.reads[k].err)
           /\ Len(bench.calls) = k - 1
    /\ \A k \in 1..Len(bench.calls) :
         /\ k <= Len(bench.reads)
         /\ bench.reads[k].err = NoError
         /\ bench.calls[k].salt = HexEncode(bench.reads[k].bytes)
C12_Witness ==
  /\ BenchReturnedNil
  /\ bench.version = "main.go"
  /\ Len(bench.reads) = 3
  /\ bench.err = ErrBenchSalt(2, ErrEntropy)
  /\ Len(bench.calls) = 2

IsKeccakCall == call.op = "keccak256_thread"
IsKeccakDone == IsKeccakCall /\ call.step.pc = "done"

\* keccak256_thread on the empty input, as one call.
EmptyDigest == keccak256_thread(<<>>, 0)

\* C13 as stated: the digest of the empty byte sequence begins, in hex, with
\* c5d2460186f7233c927e7db2dcc703c0e500b653ca82273b7bff37.
C13_EmptyDigestAsStated ==
  (IsKeccakDone /\ call.input_len = 0) =>
    SubSeq(HexEncode(call.step.output), 1, 54)
      = Bytes("c5d2460186f7233c927e7db2dcc703c0e500b653ca82273b7bff37")

\* C13, amended: keccak256_thread applied to the empty byte sequence outputs
\* the 32 bytes c5d2460186f7233c927e7db2dcc703c0e500b653ca82273b7bfad8045d85a470
\* (the standard Keccak-256 digest of the empty input), which agree with the
\* stated prefix in its first 51 hex digits and differ from it after them.
C13_EmptyDigest ==
  (IsKeccakDone /\ call.input_len = 0) =>
    /\ Len(call.step.output) = 32
    /\ HexEncode(call.step.output)
         = Bytes("c5d2460186f7233c927e7db2dcc703c0e500b653ca82273b7bfad8045d85a470")
    /\ call.step.output = EmptyDigest
    /\ SubSeq(HexEncode(call.step.output), 1, 51)
         = SubSeq(Bytes("c5d2460186f7233c927e7db2dcc703c0e500b653ca82273b7bff37"), 1, 51)
C13_Witness ==
  /\ IsKeccakDone
  /\ call.input_len = 0
  /\ call.step.perms = 1
  /\ Len(call.step.output) = 32

\* a ^ b on uchar values.
Xor8(a, b) == ByteOf((BitsOf(a) \ BitsOf(b)) \cup (BitsOf(b) \ BitsOf(a)))

\* The 200 bytes of a state array, and the state array holding given bytes.
BytesOfState(state) == [i \in 1..200 |-> StateByte(state, i - 1)] \o <<>>
StateOfBytes(bs) ==
  [l \in 1..25 |-> UNION {{8 * j + k : k \in BitsOf(bs[8 * (l - 1) + j + 1])} : j \in 0..7}]
    \o <<>>

\* The bytes of state with the bytes of block XORed over its beginning.
XoredWith(state, block) ==
  [i \in 1..200 |-> Xor8(StateByte(state, i - 1), IF i <= Len(block) THEN block[i] ELSE 0)]
    \o <<>>

\* The two padding bytes for an input of n bytes, as a 136-byte block: 0x01
\* at n mod 136 and 0x80 at 135, which is the one byte 0x81 when they meet.
PaddingBlock(n) ==
  [i \in 1..136 |->
     IF n % 136 = 135 /\ i = 136 THEN 129
     ELSE IF i = (n % 136) + 1 THEN 1
     ELSE IF i = 136 THEN 128
     ELSE 0] \o <<>>

\* One step of keccak256_thread from st to nx on an input of n bytes is the
\* step the claim describes.
StepAsStated(input, n, st, nx) ==
  /\ st.pc = "absorb" /\ n - st.offset >= 136 =>
       /\ nx.pc = "absorb"
       /\ nx.offset = st.offset + 136
       /\ nx.perms = st.perms + 1
       /\ nx.state = keccak_f(StateOfBytes(XoredWith(st.state,
                                                      SubSeq(input, st.offset + 1, st.offset + 136))))
  /\ st.pc = "absorb" /\ n - st.offset > 0 /\ n - st.offset < 136 =>
       /\ nx.pc = "pad"
       /\ nx.perms = st.perms
       /\ BytesOfState(nx.state) = XoredWith(st.state, SubSeq(input, st.offset + 1, n))
  /\ (st.pc = "pad" \/ (st.pc = "absorb" /\ n - st.offset = 0)) =>
       /\ nx.pc = "permute"
       /\ nx.perms = st.perms
       /\ st.perms = n \div 136
       /\ BytesOfState(nx.state) = XoredWith(st.state, PaddingBlock(n))
  /\ st.pc = "permute" =>
       /\ nx.pc = "squeeze"
       /\ nx.perms = st.perms + 1
       /\ nx.state = keccak_f(st.state)
  /\ st.pc = "squeeze" =>
       /\ nx.pc = "done"
       /\ nx.perms = (n \div 136) + 1
       /\ nx.output = SubSeq(BytesOfState(st.state), 1, 32)

\* C18: keccak256_thread on n bytes XORs each full 136-byte block into the
\* state and permutes after it, XORs a last partial block in without
\* permuting, then XORs 0x01 at byte n mod 136 and 0x80 at byte 135 (0x81 at
\* byte 135 when n mod 136 = 135) and permutes once more, so that keccak_f has
\* run floor(n/136)+1 times when the first 32 state bytes are copied out.
C18_AbsorbPadSqueeze ==
  [][(IsKeccakCall /\ call' # call) =>
       StepAsStated(call.input, call.input_len, call.step, call'.step)]_vars
C18_Witness ==
  /\ IsKeccakDone
  /\ call.input_len % 136 = 135
  /\ call.input_len > 136
  /\ call.step.perms = 2
  /\ Len(call.step.output) = 32

IsBase58Call == call.op = "base58_encode"

\* Standard Base58 decoding: every leading 1 is a zero byte, the remaining
\* characters are the base-58 digits of a number whose bytes follow, most
\* significant first.  The number is kept as its bytes, least significant
\* first.
Base58Index(c) == CHOOSE k \in 0..57 : BASE58_ALPHABET[k + 1] = c
RECURSIVE Base58MulAdd(_, _)
Base58MulAdd(number, carry) ==
  IF number = <<>>
    THEN (IF carry = 0 THEN <<>> ELSE <<carry % 256>> \o Base58MulAdd(<<>>, carry \div 256))
    ELSE <<(58 * Head(number) + carry) % 256>>
         \o Base58MulAdd(Tail(number), (58 * Head(number) + carry) \div 256)
RECURSIVE Base58Number(_, _)
Base58Number(str, number) ==
  IF str = <<>> THEN number
  ELSE Base58Number(Tail(str), Base58MulAdd(number, Base58Index(Head(str))))
LeadingOnes(str) ==
  Cardinality({i \in 1..Len(str) : \A j \in 1..i : str[j] = BASE58_ALPHABET[1]})
Base58Decode(str) ==
  [i \in 1..LeadingOnes(str) |-> 0]
    \o Base58Reverse(Base58Number(SubSeq(str, LeadingOnes(str) + 1, Len(str)), <<>>))

\* C14 as stated: decoding the output of base58_encode gives back the input
\* bytes, and the output starts with as many characters 1 as the input has
\* leading zero bytes, for every input, those made of zero bytes only included.
C14_Base58RoundTrip ==
  IsBase58Call =>
    /\ Base58Decode(call.ret) = call.input
    /\ LeadingOnes(call.ret) = Base58LeadingZeros(call.input, call.input_len)
\* An input of zero bytes only, encoded with one character 1 too many.
C14_Witness ==
  /\ IsBase58Call
  /\ call.input = <<0>>
  /\ call.ret = <<BASE58_ALPHABET[1], BASE58_ALPHABET[1]>>
  /\ Base58Decode(call.ret) = <<0, 0>>
\* base58_encode on the inputs that hold a non-zero byte, and on the empty
\* input: there the round trip and the count of leading 1 hold.
Base58RoundTripOnNonZero ==
  (IsBase58Call /\ (call.input = <<>> \/ \E i \in 1..call.input_len : call.input[i] # 0)) =>
    /\ Base58Decode(call.ret) = call.input
    /\ LeadingOnes(call.ret) = Base58LeadingZeros(call.input, call.input_len)

\* C15: the Go constants MinProxyBytecodePrefix and MinProxyBytecodeSuffix
\* decode to 20 and 16 bytes that are the PREFIX and SUFFIX arrays of the EVM
\* kernels (unnamed/part_003 and README.md) and of every bytecode a kernel
\* pass builds; TRON_SUFFIX equals SUFFIX in its first 15 bytes and ends in
\* 0x41 where SUFFIX ends in 0xff; the Tron PREFIX is the EVM PREFIX.
C15_ConstantsAgree ==
  /\ Len(MinProxyBytecodePrefix) = 40
  /\ Len(MinProxyBytecodeSuffix) = 32
  /\ FromHex(MinProxyBytecodePrefix) = PREFIX
  /\ FromHex(MinProxyBytecodeSuffix) = SUFFIX
  /\ Len(PREFIX) = 20
  /\ Len(SUFFIX) = 16
  /\ PREFIX_README = PREFIX
  /\ SUFFIX_README = SUFFIX
  /\ PREFIX_TRON = PREFIX
  /\ Len(TRON_SUFFIX) = 16
  /\ SubSeq(TRON_SUFFIX, 1, 15) = SubSeq(SUFFIX, 1, 15)
  /\ TRON_SUFFIX[16] = 65
  /\ SUFFIX[16] = 255
  /\ HexEncode(TRON_SUFFIX) = SubSeq(MinProxyBytecodeSuffix, 1, 30) \o Bytes("41")
  /\ IsIteration =>
       /\ SubSeq(iteration.bytecode, 1, 20) = FromHex(MinProxyBytecodePrefix)
       /\ SubSeq(iteration.bytecode, 41, 56) = FromHex(MinProxyBytecodeSuffix)
       /\ SubSeq(bytecode_template_tron(KernelParams), 1, 55)
            = SubSeq(iteration.bytecode, 1, 55)
       /\ SubSeq(bytecode_template_tron(KernelParams), 57, 76)
            = SubSeq(iteration.bytecode, 57, 76)
       /\ bytecode_template_tron(KernelParams)[56] # iteration.bytecode[56]
C15_Witness ==
  /\ IsIteration
  /\ SubSeq(iteration.bytecode, 41, 56) = SUFFIX
  /\ bytecode_template_tron(KernelParams)[56] = 65
  /\ iteration.bytecode[56] = 255

\* C16: for the same implementation, deployer and 32 salt bytes (the salt
\* string followed by zero bytes) the kernel with provided salts writes the 40
\* characters that the Go PredictDeterministicAddress returns after "0x", and
\* the kernel of README.md, which hex-encodes and decodes the bytecode before
\* hashing, writes the same 40 characters.
C16_KernelsAgreeWithGo ==
  IsIteration =>
    /\ stringToHex(KernelSaltSource(iteration.idx), 32) = hex_encode_README(iteration.salt_str, 32)
    /\ Len(iteration.result.address) = 40
    /\ iteration.result.address = SliceFrom(GoDerivation.address, 2)
    /\ SliceTo(GoDerivation.address, 2) = Bytes("0x")
    /\ OriginalAt(iteration.idx).result = iteration.result
    /\ OriginalAt(iteration.idx).bytecode = iteration.bytecode
    /\ OriginalAt(iteration.idx).first_part = SubSeq(iteration.bytecode, 1, 55)
    /\ OriginalAt(iteration.idx).second_part = iteration.second_part
    /\ OriginalAt(iteration.idx).bytecode_hex = GoDerivation.fullBytecode
C16_Witness ==
  /\ IsIteration
  /\ Len(KernelSaltSource(iteration.idx)) \in 1..31
  /\ results[iteration.idx].address = SliceFrom(GoDerivation.address, 2)
  /\ OriginalAt(iteration.idx).result.address = results[iteration.idx].address
  /\ \E k \in 1..40 : iteration.result.address[k] \in ChUpperA..ChUpperF

\* The 32 bytes of a salt string: its bytes, then zero bytes.
PaddedSalt(salt) == salt \o [i \in 1..(32 - Len(salt)) |-> 0]

\* The 108-byte layout: prefix [0,20), implementation [20,40), suffix
\* [40,56), deployer [56,76), padded salt [76,108).
HasLayout(bytes, implementation, deployer, salt) ==
  /\ Len(bytes) = 108
  /\ SubSeq(bytes, 1, 20) = PREFIX
  /\ SubSeq(bytes, 21, 40) = FromHex(SliceFrom(implementation, 2))
  /\ SubSeq(bytes, 41, 56) = SUFFIX
  /\ SubSeq(bytes, 57, 76) = FromHex(SliceFrom(deployer, 2))
  /\ SubSeq(bytes, 77, 108) = PaddedSalt(salt)

\* The passes of the two kernels whose parameters and salt are the arguments
\* of the last call of the predictor.
KernelPassesOfCall ==
  IF call.implementation = Implementation /\ call.deployer = Deployer
    THEN {e \in KernelTable : KernelSaltSource(e.idx) = call.salt}
    ELSE {}
OriginalPassesOfCall ==
  IF call.implementation = Implementation /\ call.deployer = Deployer
    THEN {e \in OriginalTable : KernelSaltSource(e.gid) = call.salt}
    ELSE {}

\* C17: for every input that passes the three checks the builder holds
\* exactly 216 characters, the hexadecimal form of 108 bytes laid out as
\* prefix, implementation, suffix, deployer, padded salt, and exactly 280
\* characters once the first hash is appended, so that [:110] and [110:280]
\* are in range (55 and 85 bytes are hashed); a call that fails a check builds
\* nothing; and the kernels build the same 108 bytes for the same arguments.
C17_BytecodeLayout ==
  IsPredictCall =>
    /\ call.err # NoError => call.derivation = NoDerivation
    /\ call.err = NoError =>
         /\ Len(call.derivation.bytecode) = 216
         /\ \A i \in 1..216 : call.derivation.bytecode[i] \in LowerHexBytes
         /\ HasLayout(FromHex(call.derivation.bytecode), call.implementation,
                      call.deployer, call.salt)
         /\ Len(call.derivation.fullBytecode) = 280
         /\ SliceTo(call.derivation.fullBytecode, 216) = call.derivation.bytecode
         /\ SliceFrom(call.derivation.fullBytecode, 216) = HexEncode(call.derivation.firstHash)
         /\ 110 <= Len(call.derivation.bytecode)
         /\ 280 <= Len(call.derivation.fullBytecode)
         /\ Len(call.derivation.firstBytes) = 55
         /\ Len(call.derivation.secondBytes) = 85
         /\ \A e \in KernelPassesOfCall \cup OriginalPassesOfCall :
              /\ e.bytecode = FromHex(call.derivation.bytecode)
              /\ HasLayout(e.bytecode, call.implementation, call.deployer, call.salt)
C17_Witness ==
  /\ IsPredictCall
  /\ call.err = NoError
  /\ Len(call.salt) \in 1..31
  /\ KernelPassesOfCall # {}
  /\ OriginalPassesOfCall # {}
  /\ Len(call.derivation.fullBytecode) = 280
C17_WitnessUpperPrefix ==
  /\ IsPredictCall
  /\ call.err = NoError
  /\ call.implementation[2] = ChUpperX
  /\ Len(call.derivation.bytecode) = 216

\* s has 42 characters, the first 0 and the second x or X.
HasLengthAndPrefix(s) ==
  /\ Len(s) = 42
  /\ s[1] = Ch0
  /\ s[2] \in {ChLowerX, ChUpperX}

\* Every key of the cache passed the length and prefix test and is stored
\* with the validity of that very string.
CacheEntriesRight ==
  \A a \in DOMAIN addressCache :
    /\ HasLengthAndPrefix(a)
    /\ addressCache[a] = MatchesAddressPattern(a)

\* A step keeps every entry as it is, adds at most the argument of the call,
\* adds nothing for an argument refused by the length or prefix test, and
\* answers an argument already cached with the stored value, leaving the
\* cache as it is.
CacheStepRight ==
  /\ \A a \in DOMAIN addressCache :
       a \in DOMAIN addressCache' /\ addressCache'[a] = addressCache[a]
  /\ call'.op = "isValidAddress" =>
       /\ DOMAIN addressCache' \subseteq (DOMAIN addressCache) \cup {call'.address}
       /\ ~HasLengthAndPrefix(call'.address) =>
            (addressCache' = addressCache /\ ~call'.ret)
       /\ call'.address \in DOMAIN addressCache =>
            (addressCache' = addressCache /\ call'.ret = addressCache[call'.address])
       /\ HasLengthAndPrefix(call'.address) =>
            (call'.address \in DOMAIN addressCache'
               /\ addressCache'[call'.address] = call'.ret)

\* C19: after any sequence of isValidAddress calls every key of the address
\* cache has 42 characters and starts with 0x or 0X, and its boolean is the
\* syntactic validity of that key; a string refused by the length or prefix
\* test is never stored; an entry is never removed or changed; a call whose
\* argument is cached returns the stored value and leaves the cache unchanged.
C19_CacheInvariant == []CacheEntriesRight /\ [][CacheStepRight]_vars
C19_Witness ==
  /\ IsValidateCall
  /\ call.address \in DOMAIN addressCache
  /\ ~call.ret
  /\ Cardinality(DOMAIN addressCache) = 3
  /\ \E a \in DOMAIN addressCache : addressCache[a]
  /\ \E a \in DOMAIN addressCache : a[2] = ChUpperX /\ ~addressCache[a]

\* The argument of the call goroutine w has returned from.
WorkerReturnsRight(wk) ==
  /\ wk.op = "isValidAddress" =>
       (wk.ret = MatchesAddressPattern(wk.address) /\ wk.err = NoError)
  /\ wk.op = "PredictDeterministicAddress" =>
       <<wk.result, wk.err>> = Outcome(EmptyCache, <<wk.implementation, wk.deployer, wk.salt>>)

\* A goroutine between its Load and its Store holds the validity of its
\* argument, and one inside isValidAddress has an argument that passed the
\* length and prefix test.
WorkerHoldsRight(wk) ==
  /\ wk.pc \in {"load", "store"} => HasLengthAndPrefix(wk.address)
  /\ wk.pc = "store" => wk.found = MatchesAddressPattern(wk.address)

\* C20: with several goroutines calling isValidAddress and
\* PredictDeterministicAddress on one instance, under every interleaving of
\* their Load and Store steps each call returns what it returns alone (the
\* validity of its own argument; the address or error of a fresh instance),
\* the cache holds only right values, and a Store on a key that is already
\* cached, by a goroutine that missed it before, writes the value it holds.
C20_ConcurrentCallsRight ==
  /\ [](\A w \in 1..NumWorkers :
          /\ workers[w].pc = "done" => WorkerReturnsRight(workers[w])
          /\ WorkerHoldsRight(workers[w]))
  /\ []CacheEntriesRight
  /\ [][\A a \in DOMAIN addressCache :
          a \in DOMAIN addressCache' /\ addressCache'[a] = addressCache[a]]_vars
C20_Witness ==
  \E w1, w2 \in 1..NumWorkers :
    /\ w1 # w2
    /\ workers[w1].pc = "store"
    /\ workers[w1].address \in DOMAIN addressCache
    /\ workers[w2].pc = "done"
    /\ workers[w2].op = "isValidAddress"
    /\ workers[w2].address = workers[w1].address
    /\ workers[w2].ret
    /\ workers[w1].op = "PredictDeterministicAddress"

\* The run is made with the constants of the repository.
IsRepositoryBuild ==
  IsBenchRun /\ bench.implementation = Implementation /\ bench.deployer = Deployer

\* C21: during a whole run of runBenchmark the address cache holds at most
\* two entries, whose keys are the implementation and the deployer of the
\* build, whatever the number of iterations made and the salts used; with the
\* constants of the repository both are stored as true, from the first
\* prediction on.
C21_CacheStaysSmall ==
  IsBenchRun =>
    /\ DOMAIN addressCache \subseteq {bench.implementation, bench.deployer}
    /\ Cardinality(DOMAIN addressCache) <= 2
    /\ \A k \in 1..Len(bench.calls) : bench.calls[k].salt \notin DOMAIN addressCache
    /\ IsRepositoryBuild =>
         /\ \A a \in DOMAIN addressCache : addressCache[a]
         /\ (bench.version = "main.go" /\ Len(bench.calls) >= 1) =>
              DOMAIN addressCache = {Implementation, Deployer}
C21_Witness ==
  /\ IsRepositoryBuild
  /\ bench.version = "main.go"
  /\ Len(bench.calls) = TotalIterations
  /\ Cardinality({bench.calls[k].salt : k \in 1..Len(bench.calls)}) >= 3
  /\ Cardinality(DOMAIN addressCache) = 2

\* The indices at which the number of digits of i changes, below total.
DigitBoundaries(total) ==
  {n \in {0, 9, 10, 99, 100, 999, 1000, 9999, 10000, 99999, 100000, 999999, 1000000,
          9999999, 10000000, total - 1} : n < total}

\* C24: every salt the benchmark generates passes the salt check.  In
\* go/main.go the salt is the hex of the 16 bytes read: exactly 32 lowercase
\* hex characters, which stringToHex encodes without adding a zero byte.  In
\* unnamed/part_000 and bun/src/main.ts the salt Salt-i has at most 32 bytes
\* for every i below TotalIterations.  No call returns the salt error, and a
\* run with the constants of the repository is aborted by nothing but a
\* failure of rand.Read.
C24_SaltsWithinLimit ==
  /\ \A i \in DigitBoundaries(TotalIterations000) \cup DigitBoundaries(TotalIterationsBun) :
       Len(SaltOfIteration(i)) <= 32
  /\ Len(SaltOfIteration(TotalIterations000 - 1)) = 12
  /\ IsBenchRun =>
       /\ \A k \in 1..Len(bench.calls) :
            /\ Len(bench.calls[k].salt) <= 32
            /\ bench.calls[k].err # ErrSalt
            /\ bench.version = "main.go" =>
                 /\ Len(bench.calls[k].salt) = 32
                 /\ \A j \in 1..32 : bench.calls[k].salt[j] \in LowerHexBytes
                 /\ bench.calls[k].salt = HexEncode(bench.reads[k].bytes)
                 /\ stringToHex(bench.calls[k].salt, 32) = HexEncode(bench.calls[k].salt)
            /\ bench.version = "part_000" =>
                 bench.calls[k].salt = SaltOfIteration(k - 1)
       /\ (IsRepositoryBuild /\ BenchReturnedNil) =>
            /\ bench.version = "main.go"
            /\ bench.err = ErrBenchSalt(bench.i, ErrEntropy)
            /\ \A k \in 1..Len(bench.calls) : bench.calls[k].err = NoError
C24_Witness ==
  /\ IsRepositoryBuild
  /\ BenchReturnedNil
  /\ bench.err = ErrBenchSalt(2, ErrEntropy)
  /\ Len(bench.calls) = 2
  /\ bench.calls[1].salt # bench.calls[2].salt
C24_WitnessSequential ==
  /\ IsRepositoryBuild
  /\ bench.version = "part_000"
  /\ bench.pc = "returned"
  /\ bench.result # NilResult
  /\ Len(bench.calls) = TotalIterations

\* The indices that are reported: 0, the multiples of ReportInterval, and the
\* last index.
ReportedIndices ==
  {i \in 0..(TotalIterations - 1) : i % ReportInterval = 0 \/ i = TotalIterations - 1}

\* The run returned a result: no prediction and no rand.Read failed.
BenchSucceeded == bench.pc = "returned" /\ bench.result # NilResult

\* The reports made so far are those of the reported indices below i, in
\* increasing order, each once; each counts i + 1 predictions done; the first
\* attributes nothing to a recent interval and each later one attributes
\* i - lastCount, the predictions completed since the report before it.
ReportsRight ==
  /\ {bench.reports[k].i : k \in 1..Len(bench.reports)}
       = {i \in ReportedIndices :
            i < Cardinality({k \in 1..Len(bench.calls) : bench.calls[k].err = NoError})}
  /\ \A k \in 1..(Len(bench.reports) - 1) : bench.reports[k].i < bench.reports[k + 1].i
  /\ \A k \in 1..Len(bench.reports) :
       /\ bench.reports[k].done = bench.reports[k].i + 1
       /\ k = 1 => (bench.reports[k].i = 0 /\ bench.reports[k].recent = <<>>)
       /\ k > 1 =>
            bench.reports[k].recent = <<bench.reports[k].done - bench.reports[k - 1].done>>
  /\ bench.lastCount = (IF bench.reports = <<>> THEN 0
                         ELSE bench.reports[Len(bench.reports)].i)

\* A run that made all its predictions: TotalIterations of them, for the
\* indices 0..TotalIterations-1 in this order, and TotalOperations is
\* TotalIterations.
SucceededRight ==
  BenchSucceeded =>
    /\ Len(bench.calls) = TotalIterations
    /\ \A k \in 1..TotalIterations : bench.calls[k].i = k - 1 /\ bench.calls[k].err = NoError
    /\ bench.result.TotalOperations = TotalIterations
    /\ bench.err = NoError
    /\ {bench.reports[k].i : k \in 1..Len(bench.reports)} = ReportedIndices

\* No prediction and no read has failed so far.
NothingFailed ==
  /\ IsBenchRun
  /\ bench.result # NilResult

\* C25: a run of runBenchmark in which nothing fails ends, after exactly
\* TotalIterations predictions made for the indices 0..TotalIterations-1 in
\* increasing order, returning TotalOperations = TotalIterations; it reports
\* at index 0, at every multiple of ReportInterval and at the last index, and
\* nowhere else; each report after the first attributes i - lastCount
\* operations to the recent interval, the number of predictions completed
\* since the report before it.
C25_RunsToTheEnd ==
  /\ [](IsBenchRun => (ReportsRight /\ SucceededRight))
  /\ <>(bench.pc = "returned")
  /\ [](IsRepositoryBuild => <>(BenchReturnedNil \/ BenchSucceeded))
C25_Witness ==
  /\ IsRepositoryBuild
  /\ bench.version = "main.go"
  /\ BenchSucceeded
  /\ Len(bench.reports) = Cardinality(ReportedIndices)
  /\ (TotalIterations - 1) % ReportInterval # 0
  /\ bench.reports[Len(bench.reports)].i = TotalIterations - 1
  /\ bench.reports[Len(bench.reports)].recent = <<(TotalIterations - 1) % ReportInterval>>

\* The address a with the hex letters after its prefix in lower case.
LowerDigits(a) == SliceTo(a, 2) \o ToLower(SliceFrom(a, 2))

\* The last call was made with two valid addresses and a salt within the limit.
IsValidPredictCall ==
  /\ IsPredictCall
  /\ MatchesAddressPattern(call.implementation)
  /\ MatchesAddressPattern(call.deployer)
  /\ Len(call.salt) <= 32

\* C22: the predicted address does not depend on the case of the hex letters
\* of implementation and deployer: a call with valid addresses returns the
\* address, and goes through the bytecode and the hashes, of the call with
\* both addresses in lower case; yet every spelling passed is a key of its own
\* in the cache.
C22_CaseOfDigitsIgnored ==
  IsValidPredictCall =>
    /\ call.err = NoError
    /\ <<call.address, call.err>>
         = Outcome(EmptyCache, <<LowerDigits(call.implementation),
                                 LowerDigits(call.deployer), call.salt>>)
    /\ call.derivation
         = Derived(LowerDigits(call.implementation), LowerDigits(call.deployer), call.salt)
    /\ {call.implementation, call.deployer} \subseteq DOMAIN addressCache
    /\ \A a \in DOMAIN addressCache : addressCache[a] = MatchesAddressPattern(a)
C22_Witness ==
  /\ IsValidPredictCall
  /\ call.implementation = UpperDigits(Implementation)
  /\ call.deployer = Deployer
  /\ call.address = ExpectedAddress
  /\ {Implementation, UpperDigits(Implementation), WithByte(Implementation, 2, ChUpperA)}
       \subseteq DOMAIN addressCache

\* C23: a successful call returns 42 characters, 0x and 40 hex digits; the
\* string is accepted by isValidAddress, on this instance and on a fresh one,
\* and a call that passes it as implementation and as deployer passes the
\* checks; a call made with a returned address succeeds.
C23_ReturnedAddressIsValid ==
  /\ (IsPredictCall /\ call.err = NoError) =>
       /\ Len(call.address) = 42
       /\ SliceTo(call.address, 2) = Bytes("0x")
       /\ \A i \in 3..42 : call.address[i] \in HexDigitBytes
       /\ MatchesAddressPattern(call.address)
       /\ isValidAddress(addressCache, call.address).ret
       /\ isValidAddress(EmptyCache, call.address).ret
       /\ PredictChecks(addressCache, call.address, call.address, call.salt).err = NoError
       /\ ExpectedAddress \in {call.implementation, call.deployer} =>
            (Len(call.address) = 42 /\ call.address # ExpectedAddress)
  /\ (IsPredictCall /\ ExpectedAddress \in {call.implementation, call.deployer}) =>
       call.err = NoError
  /\ (IsValidateCall /\ call.address = ExpectedAddress) => call.ret
C23_Witness ==
  /\ IsPredictCall
  /\ call.err = NoError
  /\ call.implementation = ExpectedAddress
  /\ ExpectedAddress \in DOMAIN addressCache
  /\ addressCache[ExpectedAddress]
  /\ MatchesAddressPattern(call.address)
C23_WitnessValidated ==
  /\ IsValidateCall
  /\ call.address = ExpectedAddress
  /\ call.ret

\* The run is a test of go/main.go or of unnamed/part_004.
IsTestRun ==
  /\ bench.pc \in {"test", "predicted", "errChecked", "resultChecked", "exited"}
  /\ bench.version \in {"main.go", "part_004"}
SuccessPrinted ==
  \E k \in 1..Len(bench.output) : bench.output[k].line = "check: result"
FailurePrinted ==
  \E k \in 1..Len(bench.output) :
    bench.output[k].line \in {"prediction failed: err", "cross: prediction failed: result"}

\* C30 as stated: in test mode the line with the check mark is printed only
\* when the prediction returned no error and the expected address
\* 0x22FBFB2264B9Cd1ADe8ce5013012c817878D783C; after a failed or mismatching
\* prediction the test ends with the failure report and without that line.
C30_SuccessOnlyOnMatch ==
  IsTestRun =>
    /\ SuccessPrinted => (bench.err = NoError /\ bench.result = ExpectedAddress)
    /\ (bench.pc = "exited" /\ (bench.err # NoError \/ bench.result # ExpectedAddress)) =>
         ~SuccessPrinted
\* A test whose prediction failed: the error line, the line with the cross
\* and then the line with the check mark.
C30_Witness ==
  /\ IsTestRun
  /\ bench.version = "main.go"
  /\ bench.pc = "exited"
  /\ bench.err = ErrImplementation(bench.implementation)
  /\ bench.output = << LineError(bench.err), LineMismatch(<<>>), LineSuccess(<<>>) >>
\* What the code does: every test that does not throw ends with the line with
\* the check mark, after a failure report when the prediction failed or
\* returned another address; a test with the constants of go/main.go prints
\* that line alone.
TestAlwaysPrintsResult ==
  (IsTestRun /\ bench.pc = "exited" /\ bench.err # [msg |-> "thrown", arg |-> <<>>]) =>
    /\ bench.output[Len(bench.output)] = LineSuccess(bench.result)
    /\ FailurePrinted <=> (bench.err # NoError \/ bench.result # ExpectedAddress)
    /\ (bench.version = "main.go" /\ bench.implementation = Implementation
          /\ bench.deployer = Deployer) =>
         bench.output = <<LineSuccess(ExpectedAddress)>>

(***************************************************************************)
(* Unsigned integers of the kernels.  A uint32_t or uint64_t value is the  *)
(* sequence of its bytes, least significant first, so that sums, products  *)
(* and shifts keep their width: what does not fit the bytes is dropped.    *)
(***************************************************************************)
Pow256 == <<1, 256, 65536, 16777216>>

\* The w-byte value of the natural number v, and of a number written in hex
\* digits, most significant first.
WordOf(w, v) == [i \in 1..w |-> IF i > 4 THEN 0 ELSE (v \div Pow256[i]) % 256] \o <<>>
WordOfHex(h) ==
  [i \in 1..(Len(h) \div 2) |-> HexByte(SubSeq(h, Len(h) - 2 * i + 1, Len(h) - 2 * i + 2))] \o <<>>

\* (uint64_t)a and (uint32_t)a.
Widen(a, w) == [i \in 1..w |-> IF i <= Len(a) THEN a[i] ELSE 0] \o <<>>
Truncate(a, w) == SubSeq(a, 1, w)

\* The natural number a word holds, for words below 2^31.
NatOf(a) ==
  a[1] + (IF Len(a) > 1 THEN 256 * a[2] ELSE 0) + (IF Len(a) > 2 THEN 65536 * a[3] ELSE 0)
  + (IF Len(a) > 3 THEN 16777216 * a[4] ELSE 0)

\* a + b in the width of a.
RECURSIVE CarryOfSum(_, _, _)
CarryOfSum(a, b, i) ==
  IF i = 0 THEN 0 ELSE (a[i] + b[i] + CarryOfSum(a, b, i - 1)) \div 256
AddWord(a, b) ==
  [i \in 1..Len(a) |-> (a[i] + b[i] + CarryOfSum(a, b, i - 1)) % 256] \o <<>>

\* a * b in the width of a.
RECURSIVE ColumnOfProduct(_, _, _, _)
ColumnOfProduct(a, b, k, i) ==
  IF i = 0 THEN 0 ELSE a[i] * b[k + 1 - i] + ColumnOfProduct(a, b, k, i - 1)
RECURSIVE CarryOfProduct(_, _, _)
CarryOfProduct(a, b, k) ==
  IF k = 0 THEN 0 ELSE (ColumnOfProduct(a, b, k, k) + CarryOfProduct(a, b, k - 1)) \div 256
MulWord(a, b) ==
  [k \in 1..Len(a) |-> (ColumnOfProduct(a, b, k, k) + CarryOfProduct(a, b, k - 1)) % 256] \o <<>>

\* a < b for words of one width.
LessWord(a, b) ==
  \E i \in 1..Len(a) : a[i] < b[i] /\ \A j \in (i + 1)..Len(a) : a[j] = b[j]
MinWord(a, b) == IF LessWord(a, b) THEN a ELSE b

\* The one bits of a word.
BitsOfWord(a) == UNION {{8 * (i - 1) + k : k \in BitsOf(a[i])} : i \in 1..Len(a)}

\* a >> n, a << n, a ^ b and a | b in the width of a.
ByteAt(a, i) == IF i \in 1..Len(a) THEN a[i] ELSE 0
ShiftRight(a, n) ==
  [i \in 1..Len(a) |->
     (ByteAt(a, i + (n \div 8)) \div Pow2[(n % 8) + 1])
     + (ByteAt(a, i + (n \div 8) + 1) % Pow2[(n % 8) + 1]) * Pow2[9 - (n % 8)]] \o <<>>
ShiftLeft(a, n) ==
  [i \in 1..Len(a) |->
     ((ByteAt(a, i - (n \div 8)) * Pow2[(n % 8) + 1]) % 256)
     + (ByteAt(a, i - (n \div 8) - 1) \div Pow2[9 - (n % 8)])] \o <<>>
XorWord(a, b) == [i \in 1..Len(a) |-> Xor8(a[i], b[i])] \o <<>>
OrWord(a, b) == [i \in 1..Len(a) |-> Or8(a[i], b[i])] \o <<>>

(***************************************************************************)
(* The PCG32 generator of the kernel and the salts drawn from it.          *)
(***************************************************************************)
PCG_MULTIPLIER == WordOfHex("5851f42d4c957f2d")
STREAM_MULTIPLIER == WordOfHex("00000100000001b3")

\* pcg32_random: the generator after the call and the value returned.
pcg32_random(rng) ==
  LET oldstate == rng.state
      xorshifted == Truncate(ShiftRight(XorWord(ShiftRight(oldstate, 18), oldstate), 27), 4)
      rot == NatOf(Truncate(ShiftRight(oldstate, 59), 4))
  IN [rng |-> [state |-> AddWord(MulWord(oldstate, PCG_MULTIPLIER), rng.inc), inc |-> rng.inc],
      value |-> OrWord(ShiftRight(xorshifted, rot), ShiftLeft(xorshifted, (32 - rot) % 32))]

\* pcg32_init.
PcgSeeded(rng, seed) == [state |-> AddWord(rng.state, seed), inc |-> rng.inc]
pcg32_init(seed, stream) ==
  LET zeroed == [state |-> WordOf(8, 0), inc |-> OrWord(ShiftLeft(stream, 1), WordOf(8, 1))]
  IN pcg32_random(PcgSeeded(pcg32_random(zeroed).rng, seed)).rng

\* generate_random_salt: eight values are drawn, and the four upper hex digits
\* of each are written.  acc holds the generator, the salt written so far and
\* the values drawn.
SaltDigitsLowerHalf(rand) ==
  <<hex_chars[And8(ShiftRight(rand, 12)[1], 15) + 1], hex_chars[And8(ShiftRight(rand, 8)[1], 15) + 1],
    hex_chars[And8(ShiftRight(rand, 4)[1], 15) + 1], hex_chars[And8(rand[1], 15) + 1]>>
SaltDigits(rand) ==
  <<hex_chars[And8(ShiftRight(rand, 28)[1], 15) + 1], hex_chars[And8(ShiftRight(rand, 24)[1], 15) + 1],
    hex_chars[And8(ShiftRight(rand, 20)[1], 15) + 1], hex_chars[And8(ShiftRight(rand, 16)[1], 15) + 1]>>
SaltDraw(acc, drawn) ==
  [rng |-> drawn.rng, salt |-> acc.salt \o SaltDigits(drawn.value),
   outputs |-> Append(acc.outputs, drawn.value)]
\* for (i = 0; i < 8; i++): i is the number of values drawn.
RECURSIVE SaltDraws(_)
SaltDraws(acc) ==
  IF ~(Len(acc.outputs) < 8) THEN acc ELSE SaltDraws(SaltDraw(acc, pcg32_random(acc.rng)))
generate_random_salt(rng) == SaltDraws([rng |-> rng, salt |-> <<>>, outputs |-> <<>>])

(***************************************************************************)
(* One launch of the coarsened kernel with its unsigned arithmetic.        *)
(* iteration holds the parameters of the launch, threads the lanes that    *)
(* run, and results the records written.  A record is modelled by its      *)
(* salt_index, the salt it was computed from and the lane that wrote it;   *)
(* its address is the function of the salt that KernelIteration models.    *)
(***************************************************************************)
Lane(gid, tid) == [gid |-> WordOfHex(gid), tid |-> WordOf(4, tid)]
Launch(batch, per, grid, seed, random, lanes) ==
  [op |-> "launch", batch_size |-> WordOfHex(batch), addresses_per_thread |-> WordOfHex(per),
   grid |-> WordOfHex(grid), random_seed |-> WordOfHex(seed), use_gpu_random |-> random,
   lanes |-> lanes]

\* The lanes 0..n-1 of a grid with threadgroups of ThreadgroupSize lanes.
ThreadgroupSize == 2
FirstLanes(n) ==
  [l \in 1..n |-> [gid |-> WordOf(4, l - 1), tid |-> WordOf(4, (l - 1) % ThreadgroupSize)]] \o <<>>

\* The launches of the model.  The lanes of a small grid are all there; of a
\* large grid the lanes listed run, and every other lane has not started.
Launches ==
  {Launch("00000007", "00000002", "00000005", "00000000", 0, FirstLanes(5)),
   Launch("00000003", "00000001", "00000004", "00000000", 0, FirstLanes(4)),
   Launch("00000000", "00000003", "00000001", "00000000", 0, FirstLanes(1)),
   Launch("00000005", "00000002", "00000004", "ffffffff", 1, FirstLanes(4)),
   Launch("00000004", "00000001", "00000004", "fffffffe", 1, FirstLanes(4)),
   Launch("00000003", "40000000", "00000005", "00000000", 0, FirstLanes(5)),
   Launch("00000004", "00000004", "40000001", "00000007", 1,
          <<Lane("00000000", 0), Lane("40000000", 0)>>),
   Launch("fffffffe", "00000002", "7fffffff", "00000000", 0,
          <<Lane("00000000", 0), Lane("7ffffffe", 0)>>),
   Launch("ffffffff", "00000002", "80000000", "00000000", 0,
          <<Lane("00000000", 0), Lane("7fffffff", 1)>>)}

NoGenerator == [state |-> <<>>, inc |-> <<>>]

\* The 32 bytes of the salts buffer at a byte offset: the offset in hex digits
\* and zero bytes behind them.
SaltAtOffset(offset) ==
  [i \in 1..32 |->
     IF i > 8 THEN 0
     ELSE LET b == offset[4 - ((i - 1) \div 2)]
          IN hex_chars[(IF i % 2 = 1 THEN b \div 16 ELSE b % 16) + 1]] \o <<>>

InitLaunch ==
  /\ addressCache = EmptyCache
  /\ call = NoCall
  /\ BenchIdle
  /\ \E launch \in Launches :
       /\ iteration = launch
       /\ threads = [l \in 1..Len(launch.lanes) |->
                       [pc |-> "start", gid |-> launch.lanes[l].gid, tid |-> launch.lanes[l].tid,
                        idx |-> WordOf(4, 0), end_idx |-> WordOf(4, 0), rng |-> NoGenerator,
                        outputs |-> <<>>, salts |-> <<>>, wrote |-> <<>>]]
  /\ results = <<>>

\* A generator seeded with random_seed alone.
LaneGeneratorSharedSeed(params, gid, tid) ==
  pcg32_init(Widen(params.random_seed, 8), MulWord(Widen(tid, 8), STREAM_MULTIPLIER))

\* Lines 216..218: the generator of a lane.
LaneGenerator(params, gid, tid) ==
  LET unique_seed == Widen(AddWord(params.random_seed, gid), 8)
      stream == MulWord(Widen(tid, 8), STREAM_MULTIPLIER)
  IN pcg32_init(unique_seed, stream)

\* Lines 206..219: the indices of a lane, the early return and the generator.
LaneStarted(params, lane) ==
  LET start_idx == MulWord(lane.gid, params.addresses_per_thread)
      end_idx == MinWord(AddWord(start_idx, params.addresses_per_thread), params.batch_size)
  IN IF ~LessWord(start_idx, params.batch_size)
       THEN [lane EXCEPT !.pc = "done", !.idx = start_idx, !.end_idx = end_idx]
       ELSE [lane EXCEPT !.pc = IF LessWord(start_idx, end_idx) THEN "loop" ELSE "done",
                         !.idx = start_idx, !.end_idx = end_idx,
                         !.rng = IF params.use_gpu_random = 1
                                   THEN LaneGenerator(params, lane.gid, lane.tid)
                                   ELSE NoGenerator]

LaneStart(l) ==
  /\ iteration.op = "launch"
  /\ threads[l].pc = "start"
  /\ threads' = [threads EXCEPT ![l] = LaneStarted(iteration, threads[l])]
  /\ UNCHANGED <<addressCache, call, results, iteration, benchVars>>

\* Lines 263..279: the salt of one pass, drawn or read from the salts buffer.
LaneSalt(params, lane) ==
  IF params.use_gpu_random = 1
    THEN generate_random_salt(lane.rng)
    ELSE [rng |-> lane.rng, salt |-> SaltAtOffset(MulWord(lane.idx, WordOf(4, 32))),
          outputs |-> <<>>]

\* Lines 263..355: the lane after one pass of its loop, and the record stored.
LaneAfterPass(lane, drawn) ==
  LET next == AddWord(lane.idx, WordOf(4, 1))
  IN [lane EXCEPT !.pc = IF LessWord(next, lane.end_idx) THEN "loop" ELSE "done",
                  !.idx = next, !.rng = drawn.rng,
                  !.outputs = lane.outputs \o drawn.outputs,
                  !.salts = Append(lane.salts, drawn.salt),
                  !.wrote = Append(lane.wrote, lane.idx)]
Stored(memory, idx, record) ==
  [i \in DOMAIN memory \cup {idx} |-> IF i = idx THEN record ELSE memory[i]]

LanePass(l) ==
  /\ iteration.op = "launch"
  /\ threads[l].pc = "loop"
  /\ \E lane \in {threads[l]} :
       \E drawn \in {LaneSalt(iteration, lane)} :
          /\ threads' = [threads EXCEPT ![l] = LaneAfterPass(lane, drawn)]
          /\ results' = Stored(results, lane.idx,
                               [salt_index |-> lane.idx, salt |-> drawn.salt, gid |-> lane.gid])
  /\ UNCHANGED <<addressCache, call, iteration, benchVars>>

LaneStartSome == \E l \in DOMAIN threads : LaneStart(l)
LanePassSome == \E l \in DOMAIN threads : LanePass(l)

NextLaunch == LaneStartSome \/ LanePassSome

SpecLaunch == InitLaunch /\ [][NextLaunch]_vars

(***************************************************************************)
(* C26: the indices of the lanes of a launch                               *)
(***************************************************************************)
\* The most indices one lane owns in the launches of the model.
MaxPasses == 4

\* gid * addresses_per_thread as a natural number: the product in 64 bits,
\* which holds every product of two 32-bit values.
FirstOwned(params, gid) == MulWord(Widen(gid, 8), Widen(params.addresses_per_thread, 8))

\* index / addresses_per_thread = gid.
IsOwner(params, gid, index) ==
  /\ ~LessWord(Widen(index, 8), FirstOwned(params, gid))
  /\ LessWord(Widen(index, 8),
              AddWord(FirstOwned(params, gid), Widen(params.addresses_per_thread, 8)))

\* The indices below batch_size that the lane gid owns.
OwnedIndices(params, gid) ==
  {Truncate(index, 4) :
     index \in {AddWord(FirstOwned(params, gid), WordOf(8, k)) :
                  k \in {j \in 0..(MaxPasses - 1) :
                           /\ LessWord(WordOf(4, j), params.addresses_per_thread)
                           /\ LessWord(AddWord(FirstOwned(params, gid), WordOf(8, j)),
                                       Widen(params.batch_size, 8))}}}

\* The grid has at least ceil(batch_size / addresses_per_thread) lanes, and a
\* lane owns at least one index.
GridCovers(params) ==
  /\ LessWord(WordOf(4, 0), params.addresses_per_thread)
  /\ ~LessWord(MulWord(Widen(params.grid, 8), Widen(params.addresses_per_thread, 8)),
               Widen(params.batch_size, 8))
  /\ \A l \in DOMAIN params.lanes : LessWord(params.lanes[l].gid, params.grid)

\* The product grid * addresses_per_thread does not fit 32 bits: some lane's
\* start_idx, or its start_idx + addresses_per_thread, wraps around.
GridWraps(params) ==
  ~LessWord(MulWord(Widen(params.grid, 8), Widen(params.addresses_per_thread, 8)),
            WordOfHex("0000000100000000"))

TimesWritten(lane, index) == Cardinality({k \in DOMAIN lane.wrote : lane.wrote[k] = index})

LaunchWritesRight ==
  /\ \A l \in DOMAIN threads :
       \A k \in DOMAIN threads[l].wrote :
          LET index == threads[l].wrote[k]
          IN /\ LessWord(index, iteration.batch_size)
             /\ IsOwner(iteration, threads[l].gid, index)
             /\ TimesWritten(threads[l], index) = 1
             /\ index \in DOMAIN results
             /\ results[index].salt_index = index
             /\ \A m \in DOMAIN threads \ {l} : TimesWritten(threads[m], index) = 0
  /\ \A l \in DOMAIN threads :
       threads[l].pc = "done" =>
         \A index \in OwnedIndices(iteration, threads[l].gid) :
            /\ TimesWritten(threads[l], index) = 1
            /\ index \in DOMAIN results
            /\ results[index].gid = threads[l].gid

\* C26: in a launch with at least ceil(batch_size / addresses_per_thread)
\* lanes, every index a lane writes is below batch_size, is written once, by
\* the lane gid = index / addresses_per_thread and by no other lane, its
\* record has salt_index = index, and a lane that has finished has written
\* every index below batch_size that it owns.
C26_EachIndexOnce ==
  (iteration.op = "launch" /\ GridCovers(iteration)) => LaunchWritesRight

\* The same for the launches in which no lane's indices wrap around.
EachIndexOnceWithoutWrap ==
  (iteration.op = "launch" /\ GridCovers(iteration) /\ ~GridWraps(iteration)) => LaunchWritesRight

\* Two lanes of a covering grid have written index 0: the start_idx of the
\* second one has wrapped around.
C26_Witness ==
  /\ iteration.op = "launch"
  /\ GridCovers(iteration)
  /\ \E l, m \in DOMAIN threads :
       /\ threads[l].gid # threads[m].gid
       /\ TimesWritten(threads[l], WordOf(4, 0)) = 1
       /\ TimesWritten(threads[m], WordOf(4, 0)) = 1

\* A lane of a covering grid has returned without writing an index it owns:
\* its end_idx has wrapped around.
C26_WitnessNotWritten ==
  /\ iteration.op = "launch"
  /\ GridCovers(iteration)
  /\ \E l \in DOMAIN threads :
       /\ threads[l].pc = "done"
       /\ threads[l].wrote = <<>>
       /\ OwnedIndices(iteration, threads[l].gid) # {}

\* A launch without wrap-around in which every lane has finished and the
\* last index of the batch is written.
WitnessWithoutWrap ==
  /\ iteration.op = "launch"
  /\ GridCovers(iteration)
  /\ ~GridWraps(iteration)
  /\ \A l \in DOMAIN threads : threads[l].pc = "done"
  /\ \E l \in DOMAIN threads : \E k \in DOMAIN threads[l].wrote :
       AddWord(threads[l].wrote[k], WordOf(4, 1)) = iteration.batch_size
  /\ \E l \in DOMAIN threads : threads[l].wrote = <<>>

(***************************************************************************)
(* C27: the generators of the lanes of one dispatch                        *)
(***************************************************************************)
\* The lane has run pcg32_init and drawn nothing yet.
JustSeeded(lane) == lane.rng # NoGenerator /\ lane.wrote = <<>> /\ lane.pc # "start"

GeneratorsDiffer ==
  iteration.op = "launch" =>
    /\ \A l, m \in DOMAIN threads :
         (threads[l].gid # threads[m].gid /\ JustSeeded(threads[l]) /\ JustSeeded(threads[m]))
           => (threads[l].rng # threads[m].rng
               /\ <<threads[l].rng.state, threads[l].rng.inc>>
                    # <<threads[m].rng.state, threads[m].rng.inc>>)
    /\ \A l \in DOMAIN threads :
         threads[l].rng # NoGenerator => 0 \in BitsOfWord(threads[l].rng.inc)
    /\ \A l \in DOMAIN threads :
         (iteration.use_gpu_random = 1 /\ threads[l].pc = "loop") => threads[l].rng # NoGenerator

IncUnchanged ==
  \A l \in DOMAIN threads :
     (l \in DOMAIN threads' /\ threads[l].rng # NoGenerator)
       => threads'[l].rng.inc = threads[l].rng.inc

\* C27: in GPU-random mode two lanes with different gid hold different
\* (state, inc) pairs after pcg32_init, inc is odd, and no later step of a
\* lane changes its inc.
C27_GeneratorsDistinct == []GeneratorsDiffer /\ [][IncUnchanged]_vars

\* Two lanes of different threadgroups with one tid are seeded, the seed of
\* one of them wrapped around, and a third lane has drawn a salt.
C27_Witness ==
  /\ iteration.op = "launch"
  /\ iteration.use_gpu_random = 1
  /\ \E l, m \in DOMAIN threads :
       /\ threads[l].gid # threads[m].gid
       /\ threads[l].tid = threads[m].tid
       /\ JustSeeded(threads[l])
       /\ JustSeeded(threads[m])
       /\ LessWord(AddWord(iteration.random_seed, threads[m].gid), iteration.random_seed)
       /\ threads[l].rng.inc = threads[m].rng.inc
  /\ \E l \in DOMAIN threads : threads[l].outputs # <<>>

(***************************************************************************)
(* C28: the salts drawn from the generator                                 *)
(***************************************************************************)
\* The first n values of a generator, and the generator after them.
PcgDrawn(before, drawn) == [rng |-> drawn.rng, values |-> Append(before.values, drawn.value)]
RECURSIVE PcgStreamFrom(_, _)
PcgStreamFrom(before, n) ==
  IF ~(Len(before.values) < n) THEN before
  ELSE PcgStreamFrom(PcgDrawn(before, pcg32_random(before.rng)), n)
PcgStream(rng, n) == PcgStreamFrom([rng |-> rng, values |-> <<>>], n)

\* The hex digit of the bits low..low+3 of a value.
DigitOfBits(value, low) ==
  hex_chars[(IF low \in BitsOfWord(value) THEN 1 ELSE 0) + (IF low + 1 \in BitsOfWord(value) THEN 2 ELSE 0)
            + (IF low + 2 \in BitsOfWord(value) THEN 4 ELSE 0)
            + (IF low + 3 \in BitsOfWord(value) THEN 8 ELSE 0) + 1]

LaneSaltsRight(lane) ==
  LET stream == PcgStream(LaneGenerator(iteration, lane.gid, lane.tid), 8 * Len(lane.salts))
  IN /\ lane.outputs = stream.values
     /\ lane.rng = stream.rng
     /\ Len(lane.salts) = Len(lane.wrote)
     /\ \A m \in DOMAIN lane.salts :
          /\ Len(lane.salts[m]) = 32
          /\ \A i \in 1..32 : lane.salts[m][i] \in {hex_chars[d] : d \in 1..16}
          /\ \A k \in 0..7 : \A j \in 0..3 :
               lane.salts[m][4 * k + j + 1] = DigitOfBits(stream.values[8 * (m - 1) + k + 1], 28 - 4 * j)
          /\ results[lane.wrote[m]].gid = lane.gid => results[lane.wrote[m]].salt = lane.salts[m]

\* C28: after m calls of generate_random_salt a lane has drawn the first 8m
\* values of its generator, the k-th value of call m gives the positions
\* 4k..4k+3 of salt m as the hex digits of its bits 28..31, 24..27, 20..23
\* and 16..19, and all 32 positions hold characters of 0-9a-f.
C28_SaltsFromEightValues ==
  (iteration.op = "launch" /\ iteration.use_gpu_random = 1) =>
    \A l \in DOMAIN threads : threads[l].rng # NoGenerator => LaneSaltsRight(threads[l])

\* A lane has drawn two salts that differ.
C28_Witness ==
  /\ iteration.op = "launch"
  /\ iteration.use_gpu_random = 1
  /\ \E l \in DOMAIN threads :
       /\ Len(threads[l].salts) >= 2
       /\ Len(threads[l].outputs) = 16
       /\ threads[l].salts[1] # threads[l].salts[2]

(***************************************************************************)
(* SHA256 of the Tron kernel.  A uint32_t is the sequence of its four      *)
(* bytes, least significant first.                                         *)
(***************************************************************************)
\* a & b on bytes, bit by bit; a ^ b is a + b - 2 * (a & b), and a | b is
\* a + b - (a & b).
BitAnd(a, b) ==
  (a % 2) * (b % 2) + 2 * (((a \div 2) % 2) * ((b \div 2) % 2))
  + 4 * (((a \div 4) % 2) * ((b \div 4) % 2)) + 8 * (((a \div 8) % 2) * ((b \div 8) % 2))
  + 16 * (((a \div 16) % 2) * ((b \div 16) % 2)) + 32 * (((a \div 32) % 2) * ((b \div 32) % 2))
  + 64 * (((a \div 64) % 2) * ((b \div 64) % 2)) + 128 * ((a \div 128) * (b \div 128))
BitXor(a, b) == a + b - 2 * BitAnd(a, b)
BitOr(a, b) == a + b - BitAnd(a, b)

\* a ^ b, a & b, a | b and ~a on uint32_t.
Xor32(a, b) == <<BitXor(a[1], b[1]), BitXor(a[2], b[2]), BitXor(a[3], b[3]), BitXor(a[4], b[4])>>
And32(a, b) == <<BitAnd(a[1], b[1]), BitAnd(a[2], b[2]), BitAnd(a[3], b[3]), BitAnd(a[4], b[4])>>
Or32(a, b) == <<BitOr(a[1], b[1]), BitOr(a[2], b[2]), BitOr(a[3], b[3]), BitOr(a[4], b[4])>>
Not32(a) == <<255 - a[1], 255 - a[2], 255 - a[3], 255 - a[4]>>

\* a + b on uint32_t: the carry out of the highest byte is dropped.
Add32(a, b) ==
  <<(a[1] + b[1]) % 256,
    (a[2] + b[2] + ((a[1] + b[1]) \div 256)) % 256,
    (a[3] + b[3] + ((a[2] + b[2] + ((a[1] + b[1]) \div 256)) \div 256)) % 256,
    (a[4] + b[4] + ((a[3] + b[3] + ((a[2] + b[2] + ((a[1] + b[1]) \div 256)) \div 256)) \div 256)) % 256>>

\* The byte i of a >> n and of a << n.
ByteOfShiftRight(a, n, i) ==
  (ByteAt(a, i + (n \div 8)) \div Pow2[(n % 8) + 1])
  + (ByteAt(a, i + (n \div 8) + 1) % Pow2[(n % 8) + 1]) * Pow2[9 - (n % 8)]
ByteOfShiftLeft(a, n, i) ==
  ((ByteAt(a, i - (n \div 8)) * Pow2[(n % 8) + 1]) % 256)
  + (ByteAt(a, i - (n \div 8) - 1) \div Pow2[9 - (n % 8)])
Shr32(a, n) ==
  <<ByteOfShiftRight(a, n, 1), ByteOfShiftRight(a, n, 2), ByteOfShiftRight(a, n, 3),
    ByteOfShiftRight(a, n, 4)>>
Shl32(a, n) ==
  <<ByteOfShiftLeft(a, n, 1), ByteOfShiftLeft(a, n, 2), ByteOfShiftLeft(a, n, 3),
    ByteOfShiftLeft(a, n, 4)>>

K256 ==
  <<WordOfHex("428a2f98"), WordOfHex("71374491"), WordOfHex("b5c0fbcf"), WordOfHex("e9b5dba5"),
    WordOfHex("3956c25b"), WordOfHex("59f111f1"), WordOfHex("923f82a4"), WordOfHex("ab1c5ed5"),
    WordOfHex("d807aa98"), WordOfHex("12835b01"), WordOfHex("243185be"), WordOfHex("550c7dc3"),
    WordOfHex("72be5d74"), WordOfHex("80deb1fe"), WordOfHex("9bdc06a7"), WordOfHex("c19bf174"),
    WordOfHex("e49b69c1"), WordOfHex("efbe4786"), WordOfHex("0fc19dc6"), WordOfHex("240ca1cc"),
    WordOfHex("2de92c6f"), WordOfHex("4a7484aa"), WordOfHex("5cb0a9dc"), WordOfHex("76f988da"),
    WordOfHex("983e5152"), WordOfHex("a831c66d"), WordOfHex("b00327c8"), WordOfHex("bf597fc7"),
    WordOfHex("c6e00bf3"), WordOfHex("d5a79147"), WordOfHex("06ca6351"), WordOfHex("14292967"),
    WordOfHex("27b70a85"), WordOfHex("2e1b2138"), WordOfHex("4d2c6dfc"), WordOfHex("53380d13"),
    WordOfHex("650a7354"), WordOfHex("766a0abb"), WordOfHex("81c2c92e"), WordOfHex("92722c85"),
    WordOfHex("a2bfe8a1"), WordOfHex("a81a664b"), WordOfHex("c24b8b70"), WordOfHex("c76c51a3"),
    WordOfHex("d192e819"), WordOfHex("d6990624"), WordOfHex("f40e3585"), WordOfHex("106aa070"),
    WordOfHex("19a4c116"), WordOfHex("1e376c08"), WordOfHex("2748774c"), WordOfHex("34b0bcb5"),
    WordOfHex("391c0cb3"), WordOfHex("4ed8aa4a"), WordOfHex("5b9cca4f"), WordOfHex("682e6ff3"),
    WordOfHex("748f82ee"), WordOfHex("78a5636f"), WordOfHex("84c87814"), WordOfHex("8cc70208"),
    WordOfHex("90befffa"), WordOfHex("a4506ceb"), WordOfHex("bef9a3f7"), WordOfHex("c67178f2")>>

rotr(x, n) == Or32(Shr32(x, n), Shl32(x, 32 - n))
ch(x, y, z) == Xor32(And32(x, y), And32(Not32(x), z))
maj(x, y, z) == Xor32(Xor32(And32(x, y), And32(x, z)), And32(y, z))
sigma0(x) == Xor32(Xor32(rotr(x, 2), rotr(x, 13)), rotr(x, 22))
sigma1(x) == Xor32(Xor32(rotr(x, 6), rotr(x, 11)), rotr(x, 25))
gamma0(x) == Xor32(Xor32(rotr(x, 7), rotr(x, 18)), Shr32(x, 3))
gamma1(x) == Xor32(Xor32(rotr(x, 17), rotr(x, 19)), Shr32(x, 10))

Sha256Initial ==
  <<WordOfHex("6a09e667"), WordOfHex("bb67ae85"), WordOfHex("3c6ef372"), WordOfHex("a54ff53a"),
    WordOfHex("510e527f"), WordOfHex("9b05688c"), WordOfHex("1f83d9ab"), WordOfHex("5be0cd19")>>

\* total_len: the input, the byte 0x80, the padding and the eight length bytes.
Sha256TotalLen(input_len) == input_len + 1 + 8 + ((64 - ((input_len + 9) % 64)) % 64)

\* byte_val of the chunk byte byte_idx.
Sha256Byte(input, input_len, byte_idx) ==
  IF byte_idx < input_len THEN input[byte_idx + 1]
  ELSE IF byte_idx = input_len THEN 128
  ELSE IF byte_idx >= Sha256TotalLen(input_len) - 8
    THEN ShiftRight(WordOf(8, input_len * 8),
                    56 - (byte_idx - (Sha256TotalLen(input_len) - 8)) * 8)[1]
  ELSE 0

\* w[0..15] of the chunk at chunk_start: four bytes each, the first the highest.
Sha256FirstWords(input, input_len, chunk_start) ==
  [i \in 1..16 |->
     [j \in 1..4 |-> Sha256Byte(input, input_len, chunk_start + (i - 1) * 4 + (4 - j))] \o <<>>] \o <<>>

\* w[i] for i = Len(w), one pass of the loop over i = 16..63.
Sha256NextWord(w) ==
  Add32(Add32(Add32(gamma1(w[Len(w) - 1]), w[Len(w) - 6]), gamma0(w[Len(w) - 14])),
        w[Len(w) - 15])

\* One round on the registers a, b, c, d, e, f, g, hh.
Sha256Round(v, w, i) ==
  LET t1 == Add32(Add32(Add32(Add32(v[8], sigma1(v[5])), ch(v[5], v[6], v[7])), K256[i + 1]),
                  w[i + 1])
      t2 == Add32(sigma0(v[1]), maj(v[1], v[2], v[3]))
  IN <<Add32(t1, t2), v[1], v[2], v[3], Add32(v[4], t1), v[5], v[6], v[7]>>

\* h[k] += the register k after the 64 rounds.
Sha256Added(h, v) ==
  <<Add32(h[1], v[1]), Add32(h[2], v[2]), Add32(h[3], v[3]), Add32(h[4], v[4]),
    Add32(h[5], v[5]), Add32(h[6], v[6]), Add32(h[7], v[7]), Add32(h[8], v[8])>>

\* output[4i..4i+3]: the bytes of h[i], the highest first.
Sha256Output(h) == [k \in 1..32 |-> h[((k - 1) \div 4) + 1][4 - ((k - 1) % 4)]] \o <<>>

\* The locals of sha256 on entry to the chunk at chunk_start, w[0..15] filled.
Sha256AtChunk(input, input_len, h, chunk_start) ==
  [input |-> input, input_len |-> input_len, h |-> h, chunk_start |-> chunk_start,
   w |-> Sha256FirstWords(input, input_len, chunk_start), v |-> h, i |-> 0, at |-> "extend"]

\* After h[k] += ...: the next chunk, or the end of the loop over the chunks.
Sha256AfterChunk(sha, h) ==
  IF sha.chunk_start + 64 < Sha256TotalLen(sha.input_len)
    THEN Sha256AtChunk(sha.input, sha.input_len, h, sha.chunk_start + 64)
    ELSE [sha EXCEPT !.h = h, !.chunk_start = sha.chunk_start + 64, !.at = "output"]

(***************************************************************************)
(* The end of one pass of compute_create2_tron_batch: the Tron address of  *)
(* address_bytes, the last 20 bytes of the second Keccak hash.  call holds *)
(* the locals of the pass, in sha the locals of the sha256 or              *)
(* base58_encode call that runs, and the record stored.                    *)
(***************************************************************************)
\* The address bytes of the model: any 20 bytes can come out of the hash.
TronAddress(first, step) == [i \in 1..20 |-> (first + (i - 1) * step) % 256] \o <<>>
TronAddressBytes == {TronAddress(first, step) : first \in {0, 65, 255}, step \in {0, 13}}

NoSha == [at |-> "none"]

InitTron ==
  /\ addressCache = EmptyCache
  /\ KernelIdle
  /\ BenchIdle
  /\ \E address_bytes \in TronAddressBytes :
       call = [op |-> "tron", pc |-> "address", address_bytes |-> address_bytes,
               tron_addr_bytes |-> <<>>, hash1 |-> <<>>, hash2 |-> <<>>, sha |-> NoSha]

\* tron_addr_bytes[0] = 0x41 and the address bytes behind it; the four last
\* bytes are not written yet.
TronPrefixed(address_bytes) == <<65>> \o address_bytes

\* tron_addr_bytes[21 + i] = hash2[i] for the four bytes of the checksum.
TronChecksummedSingleHash(tron_addr_bytes, hash1, hash2) == tron_addr_bytes \o SubSeq(hash1, 1, 4)
TronChecksummed(tron_addr_bytes, hash1, hash2) == tron_addr_bytes \o SubSeq(hash2, 1, 4)

\* base58_encode with its scratch buffer: the characters of result, the
\* characters written to output and the length returned.
Base58Entered(input, input_len) == [temp |-> SubSeq(input, 1, input_len), result |-> <<>>]
Base58Scratch(result, input, input_len) ==
  result \o ([i \in 1..Base58LeadingZeros(input, input_len) |-> BASE58_ALPHABET[1]] \o <<>>)
Base58Written(scratch) ==
  [result |-> scratch, output_len |-> Len(scratch),
   output |-> [i \in 1..Len(scratch) |-> scratch[Len(scratch) - (i - 1)]] \o <<>>]

IsTronPass == call.op = "tron"
IsHashing == IsTronPass /\ call.pc \in {"hash1", "hash2"}

TronPrefix ==
  /\ IsTronPass
  /\ call.pc = "address"
  /\ call' = [call EXCEPT !.pc = "prefixed", !.tron_addr_bytes = TronPrefixed(call.address_bytes)]
  /\ UNCHANGED <<addressCache, kernelVars, benchVars>>

\* sha256(tron_addr_bytes, 21, hash1) is entered.
TronCallHash1 ==
  /\ IsTronPass
  /\ call.pc = "prefixed"
  /\ call' = [call EXCEPT !.pc = "hash1",
                          !.sha = Sha256AtChunk(call.tron_addr_bytes, 21, Sha256Initial, 0)]
  /\ UNCHANGED <<addressCache, kernelVars, benchVars>>

\* One pass of the loop over i = 16..63.
Sha256Extend ==
  /\ IsHashing
  /\ call.sha.at = "extend"
  /\ Len(call.sha.w) < 64
  /\ call' = [call EXCEPT !.sha.w = Append(call.sha.w, Sha256NextWord(call.sha.w))]
  /\ UNCHANGED <<addressCache, kernelVars, benchVars>>

\* a = h[0], ..., hh = h[7].
Sha256BeginRounds ==
  /\ IsHashing
  /\ call.sha.at = "extend"
  /\ ~(Len(call.sha.w) < 64)
  /\ call' = [call EXCEPT !.sha.v = call.sha.h, !.sha.i = 0, !.sha.at = "rounds"]
  /\ UNCHANGED <<addressCache, kernelVars, benchVars>>

\* One pass of the loop over the 64 rounds.
Sha256RoundStep ==
  /\ IsHashing
  /\ call.sha.at = "rounds"
  /\ call.sha.i < 64
  /\ call' = [call EXCEPT !.sha.v = Sha256Round(call.sha.v, call.sha.w, call.sha.i),
                          !.sha.i = call.sha.i + 1]
  /\ UNCHANGED <<addressCache, kernelVars, benchVars>>

\* The end of a chunk.
Sha256EndChunk ==
  /\ IsHashing
  /\ call.sha.at = "rounds"
  /\ ~(call.sha.i < 64)
  /\ call' = [call EXCEPT !.sha = Sha256AfterChunk(call.sha, Sha256Added(call.sha.h, call.sha.v))]
  /\ UNCHANGED <<addressCache, kernelVars, benchVars>>

\* sha256 returns hash1, and sha256(hash1, 32, hash2) is entered.
TronCallHash2 ==
  /\ IsTronPass
  /\ call.pc = "hash1"
  /\ call.sha.at = "output"
  /\ \E hash1 \in {Sha256Output(call.sha.h)} :
       call' = [call EXCEPT !.pc = "hash2", !.hash1 = hash1,
                            !.sha = Sha256AtChunk(hash1, 32, Sha256Initial, 0)]
  /\ UNCHANGED <<addressCache, kernelVars, benchVars>>

\* sha256 returns hash2, and the checksum is copied behind the address.
TronChecksum ==
  /\ IsTronPass
  /\ call.pc = "hash2"
  /\ call.sha.at = "output"
  /\ \E hash2 \in {Sha256Output(call.sha.h)} :
       call' = [call EXCEPT !.pc = "checksummed", !.hash2 = hash2, !.sha = NoSha,
                            !.tron_addr_bytes =
                               TronChecksummed(call.tron_addr_bytes, call.hash1, hash2)]
  /\ UNCHANGED <<addressCache, kernelVars, benchVars>>

\* base58_encode(tron_addr_bytes, 25, results[idx].address) is entered.
TronCallEncode ==
  /\ IsTronPass
  /\ call.pc = "checksummed"
  /\ call' = [call EXCEPT !.pc = "encode", !.sha = Base58Entered(call.tron_addr_bytes, 25)]
  /\ UNCHANGED <<addressCache, kernelVars, benchVars>>

\* One pass of while (temp_len > 0).
Base58Pass ==
  /\ IsTronPass
  /\ call.pc = "encode"
  /\ Len(call.sha.temp) > 0
  /\ call' = [call EXCEPT !.sha = Base58Emit(Base58Divide(call.sha.temp, 0, 0, <<>>),
                                             call.sha.result)]
  /\ UNCHANGED <<addressCache, kernelVars, benchVars>>

\* The leading zero bytes, the copy to output, and the two fields stored.
TronEncode ==
  /\ IsTronPass
  /\ call.pc = "encode"
  /\ ~(Len(call.sha.temp) > 0)
  /\ \E written \in {Base58Written(Base58Scratch(call.sha.result, call.tron_addr_bytes, 25))} :
       call' = [op |-> "tron", pc |-> "stored", address_bytes |-> call.address_bytes,
                tron_addr_bytes |-> call.tron_addr_bytes, scratch |-> written.result,
                address |-> written.output, address_len |-> written.output_len]
  /\ UNCHANGED <<addressCache, kernelVars, benchVars>>

NextTron ==
  \/ TronPrefix
  \/ TronCallHash1
  \/ Sha256Extend
  \/ Sha256BeginRounds
  \/ Sha256RoundStep
  \/ Sha256EndChunk
  \/ TronCallHash2
  \/ TronChecksum
  \/ TronCallEncode
  \/ Base58Pass
  \/ TronEncode

SpecTron == InitTron /\ [][NextTron]_vars

(***************************************************************************)
(* C29: the Tron payload and its Base58 form                               *)
(***************************************************************************)
\* The 25-byte payloads with the least and the greatest value behind 0x41.
TronLeastPayload == <<65>> \o ([i \in 1..24 |-> 0] \o <<>>)
TronGreatestPayload == <<65>> \o ([i \in 1..24 |-> 255] \o <<>>)
TronLengthAtEnds ==
  /\ Len(base58_encode(TronLeastPayload, 25)) = 34
  /\ Len(base58_encode(TronGreatestPayload, 25)) = 34

\* Reference values: for the address bytes of the model, the first four bytes
\* of SHA-256(SHA-256(0x41, address bytes)) and the Base58Check text of the
\* Tron address.
TronReference ==
  {[address_bytes |-> TronAddress(0, 0), checksum |-> <<185, 124, 7, 2>>,
    text |-> Bytes("T9yD14Nj9j7xAB4dbGeiX9h8unkKHxuWwb")],
   [address_bytes |-> TronAddress(0, 13), checksum |-> <<136, 231, 123, 34>>,
    text |-> Bytes("T9yUhQusVDg5QjrpRAwEEg5YBhH1LgFsGu")],
   [address_bytes |-> TronAddress(65, 0), checksum |-> <<205, 119, 65, 242>>,
    text |-> Bytes("TFvF6WzyeRKMM8NcbddxL88mZXTeuUWA8Z")],
   [address_bytes |-> TronAddress(65, 13), checksum |-> <<203, 16, 175, 14>>,
    text |-> Bytes("TFvWnsY7yusUbhAoRXvU3bFS6ssghBWpCD")],
   [address_bytes |-> TronAddress(255, 0), checksum |-> <<104, 32, 93, 113>>,
    text |-> Bytes("TZJozAg1ruapycCicgz31GxvYJ1FraLjZa")],
   [address_bytes |-> TronAddress(255, 13), checksum |-> <<145, 114, 158, 171>>,
    text |-> Bytes("TZDmoaNR9HGoqhNwEz9RNSrNpWcfh4wLwc")]}
ReferenceOf(address_bytes) == CHOOSE e \in TronReference : e.address_bytes = address_bytes

IsTronPayload(payload, address_bytes) ==
  /\ Len(payload) = 25
  /\ payload[1] = 65
  /\ SubSeq(payload, 2, 21) = address_bytes
  /\ SubSeq(payload, 22, 25) = ReferenceOf(address_bytes).checksum

\* C29: the payload encoded is 0x41, the 20 address bytes and the first four
\* bytes of SHA256(SHA256(the 21 bytes before them)); base58_encode writes
\* exactly 34 characters of it, never more than 40 into its scratch buffer,
\* and address_len is the number of characters written to the record.
C29_TronPayloadEncoded ==
  /\ (IsTronPass /\ call.pc \in {"checksummed", "encode", "stored"}) =>
        IsTronPayload(call.tron_addr_bytes, call.address_bytes)
  /\ (IsTronPass /\ call.pc = "stored") =>
        /\ Len(call.address) = 34
        /\ call.address_len = Len(call.address)
        /\ Len(call.scratch) <= 40
        /\ call.address = ReferenceOf(call.address_bytes).text
  /\ TronLengthAtEnds

\* A record is stored for address bytes that are not all equal.
C29_Witness ==
  /\ IsTronPass
  /\ call.pc = "stored"
  /\ call.address_len = 34
  /\ call.address_bytes[1] # call.address_bytes[2]
  /\ call.tron_addr_bytes[22] # 0

====
